---- MODULE Spec2Model ----
(***************************************************************************)
(* Content-management data layer: ContentModel (slug generation and slug   *)
(* uniqueness over the content collection) and SettingsModel (typed        *)
(* key-value settings with validation and access levels).                  *)
(*                                                                         *)
(* Strings are sequences of one-character strings, so that the string      *)
(* operations of the source (toLowerCase, trim, replace, length, template  *)
(* literals) are computed character by character.                          *)
(***************************************************************************)
EXTENDS Integers, Sequences, FiniteSets, TLC

VARIABLES
    title,      \* generateSlug: the title handed to the helper
    slugOut,    \* generateSlug: what the helper returned (NotRun before the call)
    content,    \* the content collection: a set of documents
    calls,      \* ContentModel calls in flight: per caller, its position and locals
    settings,   \* the settings collection: the documents by key
    writes,     \* number of writing SettingsModel calls made so far
    probe,      \* validateValue: the setting and the value handed to it
    verdict,    \* validateValue: "true" or "false" as returned, "notrun" before the call
    users,      \* the users collection: a set of documents
    sessions,   \* the sessions collection: a set of documents
    media,      \* the media collection: a set of documents
    tally,      \* calls completed so far, per document ID (views, failed logins)
    now,        \* the clock that new Date() and Date.now() read
    last        \* the call that completed last, with its arguments and outcome

vars == <<title, slugOut, content, calls, settings, writes, probe, verdict,
          users, sessions, media, tally, now, last>>

(***************************************************************************)
(* Bounds                                                                  *)
(***************************************************************************)
MaxTitleLen == 4    \* longest title enumerated for generateSlug
MaxDocs == 3        \* most documents the content collection holds
MaxWrites == 3      \* most writing SettingsModel calls in one run
MaxRaceDocs == 2    \* most documents when calls interleave
NumCallers == 2     \* callers whose calls interleave
MaxUsers == 2       \* most documents the users collection holds
MaxSessions == 1    \* most documents the sessions collection holds
MaxClock == 2       \* latest instant the clock reaches
MaxPubDocs == 1     \* most documents when documents are published over time
MaxFrameDocs == 2   \* most documents when documents are archived and removed
MaxPageDocs == 5    \* most documents in a paginated collection
MaxPage == 4        \* highest page asked for
MaxLimit == 3       \* highest page size asked for
MaxRoundDocs == 2   \* most documents when documents are inserted and read back
MaxMedia == 2       \* most documents the media collection holds
MaxViews == 2       \* most views counted on one document
MaxViewDocs == 2    \* most documents whose views are counted by interleaved calls
MaxLogins == 2      \* most failed logins recorded for one user between resets
MaxProbeDocs == 3   \* most documents when ensureUniqueSlug is followed probe by probe

(***************************************************************************)
(* Characters                                                              *)
(***************************************************************************)
UpperSeq == <<"A","B","C","D","E","F","G","H","I","J","K","L","M",
              "N","O","P","Q","R","S","T","U","V","W","X","Y","Z">>
LowerSeq == <<"a","b","c","d","e","f","g","h","i","j","k","l","m",
              "n","o","p","q","r","s","t","u","v","w","x","y","z">>
LowerChars == {LowerSeq[i] : i \in 1..26}
DigitChars == {"0","1","2","3","4","5","6","7","8","9"}
SpaceChars == {" ", "\t", "\n"}
Hyphen == "-"

\* String.prototype.toLowerCase on one character
LowerChar(c) ==
    IF \E i \in 1..26 : UpperSeq[i] = c
    THEN LowerSeq[CHOOSE i \in 1..26 : UpperSeq[i] = c]
    ELSE c

toLowerCase(s) == [i \in 1..Len(s) |-> LowerChar(s[i])]

RECURSIVE TrimStart(_)
TrimStart(s) ==
    IF s # <<>> /\ Head(s) \in SpaceChars THEN TrimStart(Tail(s)) ELSE s

RECURSIVE TrimEnd(_)
TrimEnd(s) ==
    IF s # <<>> /\ s[Len(s)] \in SpaceChars
    THEN TrimEnd(SubSeq(s, 1, Len(s) - 1))
    ELSE s

\* String.prototype.trim
trim(s) == TrimEnd(TrimStart(s))

\* /[^a-z0-9\s-]/ : the characters the first replace removes
IsSpecial(c) == c \notin (LowerChars \cup DigitChars \cup SpaceChars \cup {Hyphen})

KeepSlugChar(c) == ~IsSpecial(c)

\* .replace(/[^a-z0-9\s-]/g, '')
RemoveSpecial(s) == SelectSeq(s, KeepSlugChar)

\* .replace(/X+/g, '-') for a character class X: every maximal run becomes one hyphen
RECURSIVE ReplaceRuns(_, _)
ReplaceRuns(s, class) ==
    IF s = <<>> THEN <<>>
    ELSE IF Head(s) \in class
         THEN IF Len(s) > 1 /\ s[2] \in class
              THEN ReplaceRuns(Tail(s), class)
              ELSE <<Hyphen>> \o ReplaceRuns(Tail(s), class)
         ELSE <<Head(s)>> \o ReplaceRuns(Tail(s), class)

\* .replace(/\s+/g, '-')
SpacesToHyphen(s) == ReplaceRuns(s, SpaceChars)

\* .replace(/-+/g, '-')
CollapseHyphens(s) == ReplaceRuns(s, {Hyphen})

\* .replace(/^-|-$/g, '') : one hyphen at the start and one at the end
StripEdgeHyphens(s) ==
    LET a == IF s # <<>> /\ Head(s) = Hyphen THEN Tail(s) ELSE s
    IN  IF a # <<>> /\ a[Len(a)] = Hyphen THEN SubSeq(a, 1, Len(a) - 1) ELSE a

\* generateSlug without the final edge-hyphen replace
generateSlugNoStrip(t) ==
    CollapseHyphens(SpacesToHyphen(RemoveSpecial(trim(toLowerCase(t)))))

\* ContentModel.generateSlug
generateSlug(t) ==
    StripEdgeHyphens(CollapseHyphens(SpacesToHyphen(RemoveSpecial(trim(toLowerCase(t))))))

(***************************************************************************)
(* generateSlug as a pure function: the title is drawn from every string   *)
(* of at most MaxTitleLen characters over TitleChars, one character of     *)
(* each class the regular expressions tell apart.                          *)
(***************************************************************************)
TitleChars == {"A", "b", "7", " ", "-", "!"}
NotRun == <<"?">>

RECURSIVE SeqsUpTo(_, _)
SeqsUpTo(S, n) ==
    IF n = 0 THEN {<<>>}
    ELSE LET shorter == SeqsUpTo(S, n - 1)
         IN  shorter \cup {Append(s, c) : s \in {x \in shorter : Len(x) = n - 1}, c \in S}

Titles == SeqsUpTo(TitleChars, MaxTitleLen)

InitSlug ==
    /\ title \in Titles
    /\ slugOut = NotRun
    /\ content = {}
    /\ calls = <<>>
    /\ settings = {}
    /\ writes = 0
    /\ probe = <<>>
    /\ verdict = "notrun"
    /\ users = {}
    /\ sessions = {}
    /\ media = {}
    /\ tally = <<>>
    /\ now = 1
    /\ last = [op |-> "none"]

CallGenerateSlug ==
    /\ slugOut = NotRun
    /\ slugOut' = generateSlug(title)
    /\ UNCHANGED <<media, tally, title, content, calls, settings, writes,
                 probe, verdict, users, sessions, now, last>>

NextSlug == CallGenerateSlug

SpecSlug == InitSlug /\ [][NextSlug]_vars

SlugChars == LowerChars \cup DigitChars \cup {Hyphen}

\* C1: for every title, generateSlug returns a lowercase string over a-z, 0-9
\* and '-', that neither starts nor ends with a hyphen and has no two
\* consecutive hyphens.
GenerateSlugWellFormed ==
    slugOut # NotRun =>
        /\ \A i \in 1..Len(slugOut) : slugOut[i] \in SlugChars
        /\ toLowerCase(slugOut) = slugOut
        /\ slugOut # <<>> => slugOut[1] # Hyphen /\ slugOut[Len(slugOut)] # Hyphen
        /\ \A i \in 1..(Len(slugOut) - 1) : ~(slugOut[i] = Hyphen /\ slugOut[i + 1] = Hyphen)

\* a title with leading punctuation, inner blanks around a hyphen and an
\* upper-case letter has been slugged to a non-empty slug
GenerateSlugWitness ==
    /\ slugOut # NotRun
    /\ Len(slugOut) >= 2
    /\ \E i \in 1..Len(title) : title[i] = "A"
    /\ \E i \in 1..Len(title) : title[i] = "-"
    /\ \E i \in 1..Len(title) : title[i] = " "

(***************************************************************************)
(* JavaScript values.  A value is a record with a type tag, so that values *)
(* of different types can be told apart and compared: t is what typeof     *)
(* tells apart (with null and undefined as tags of their own), n the       *)
(* number or boolean, s the string or the name of an object.               *)
(***************************************************************************)
Undefined == [t |-> "undefined", n |-> 0, s |-> <<>>]
Null == [t |-> "null", n |-> 0, s |-> <<>>]
Str(x) == [t |-> "string", n |-> 0, s |-> x]
Num(x) == [t |-> "number", n |-> x, s |-> <<>>]
Bool(x) == [t |-> "boolean", n |-> IF x THEN 1 ELSE 0, s |-> <<>>]
Obj(x) == [t |-> "object", n |-> 0, s |-> x]

\* what `a && ...` and `a || ...` test
JSTruthy(v) ==
    CASE v.t = "undefined" -> FALSE
      [] v.t = "null" -> FALSE
      [] v.t = "string" -> v.s # <<>>
      [] v.t = "number" -> v.n # 0
      [] v.t = "boolean" -> v.n = 1
      [] OTHER -> TRUE

(***************************************************************************)
(* Settings.  A setting document carries key, value, type, validation,     *)
(* access_level and default_value; category and label are kept as given;   *)
(* description, editable, updated_by and the timestamps are left out.      *)
(* Results of getlist are taken as sets: no claim depends on their order.  *)
(***************************************************************************)
NoValidation == [none |-> TRUE]

\* a ValidationSchema subdocument; fields not given take the schema defaults
Validation(required, min, max, pattern, options) ==
    [required |-> required, min_length |-> min, max_length |-> max,
     pattern |-> pattern, options |-> options]

\* the pattern the model's settings use, and RegExp(pattern).test(value) for it
PatternLower == <<"^","[","a","-","z","]","+","$">>
RegExpTest(pattern, x) ==
    IF pattern = PatternLower
    THEN x # <<>> /\ \A i \in 1..Len(x) : x[i] \in LowerChars
    ELSE TRUE

\* validateValue that accepts everything
validateValueAlways(setting, value) == TRUE

\* SettingsSchema.methods.validateValue
validateValue(setting, value) ==
    IF setting.validation = NoValidation THEN TRUE
    ELSE LET validation == setting.validation
         IN  IF validation.required /\ value \in {Null, Undefined, Str(<<>>)} THEN FALSE
             ELSE IF /\ setting.type = "string" /\ value.t = "string"
                     /\ \/ JSTruthy(validation.min_length)
                           /\ Len(value.s) < validation.min_length.n
                        \/ JSTruthy(validation.max_length)
                           /\ Len(value.s) > validation.max_length.n
                        \/ JSTruthy(validation.pattern)
                           /\ ~RegExpTest(validation.pattern.s, value.s)
                  THEN FALSE
             ELSE IF Len(validation.options) > 0
                     /\ \A i \in 1..Len(validation.options) : validation.options[i] # value
                  THEN FALSE
             ELSE TRUE

(***************************************************************************)
(* The content collection.  A document carries the fields the slug logic   *)
(* reads and writes; the other required fields (author, type, status) are  *)
(* taken to be supplied and valid.  Slugs handed in by callers are in the  *)
(* schema's lower-case form or malformed by a blank.                       *)
(***************************************************************************)
NullID == 0
NullDate == 0                   \* a Date field that is not set
ContentIDs == 1..MaxDocs        \* values crypto.randomBytes can produce
TitleMaxLength == 200

HelloWorld == <<"H","e","l","l","o"," ","W","o","r","l","d","!">>
Bangs == <<"!","!","!">>
HW == <<"h","e","l","l","o","-","w","o","r","l","d">>
HW1 == <<"h","e","l","l","o","-","w","o","r","l","d","-","1">>
BadSlug == <<"a"," ","b">>

\* the data objects callers pass to insert and update: title and slug are optional
InsertInputs ==
    { [title |-> HelloWorld],
      [title |-> HelloWorld, slug |-> HW1],
      [title |-> HelloWorld, slug |-> BadSlug],
      [title |-> Bangs],
      [title |-> Bangs, slug |-> HW],
      [title |-> <<>>, slug |-> HW],
      [slug |-> HW1] }

UpdateInputs ==
    { [slug |-> HW],
      [slug |-> HW1],
      [slug |-> <<>>],
      [title |-> Bangs],
      [title |-> HelloWorld, slug |-> HW1] }

Has(data, f) == f \in DOMAIN data
\* JavaScript truthiness of an optional string field: undefined and '' are falsy
Truthy(data, f) == Has(data, f) /\ data[f] # <<>>

DigitSeq == <<"0","1","2","3","4","5","6","7","8","9">>

\* a non-negative number inside a template literal
RECURSIVE NumToStr(_)
NumToStr(n) ==
    IF n < 10 THEN <<DigitSeq[n + 1]>>
    ELSE NumToStr(n \div 10) \o <<DigitSeq[(n % 10) + 1]>>

\* the template literal without its hyphen
SuffixedNoHyphen(baseSlug, counter) == baseSlug \o NumToStr(counter)

\* `${baseSlug}-${counter}`
Suffixed(baseSlug, counter) == baseSlug \o <<Hyphen>> \o NumToStr(counter)

\* findOne({ slug }) whatever the excludeID
SlugMatchesAll(docs, slug, excludeID) == { d \in docs : d.slug = slug }

\* findOne({ slug }) or findOne({ slug, ID: { $ne: excludeID } }): the matches
SlugMatches(docs, slug, excludeID) ==
    { d \in docs : d.slug = slug /\ (excludeID # NullID => d.ID # excludeID) }

\* a turn of the loop that builds every suffixed slug with the counter 1
ProbeSlugSameSuffix(docs, baseSlug, slug, counter, excludeID) ==
    IF SlugMatches(docs, slug, excludeID) = {}
    THEN [done |-> TRUE, slug |-> slug, counter |-> counter]
    ELSE [done |-> FALSE, slug |-> Suffixed(baseSlug, 1), counter |-> counter + 1]

\* one turn of the while loop of ensureUniqueSlug, from (slug, counter)
ProbeSlug(docs, baseSlug, slug, counter, excludeID) ==
    IF SlugMatches(docs, slug, excludeID) = {}
    THEN [done |-> TRUE, slug |-> slug, counter |-> counter]
    ELSE [done |-> FALSE, slug |-> Suffixed(baseSlug, counter), counter |-> counter + 1]

RECURSIVE EnsureLoop(_, _, _, _, _)
EnsureLoop(docs, baseSlug, slug, counter, excludeID) ==
    LET p == ProbeSlug(docs, baseSlug, slug, counter, excludeID)
    IN  IF p.done THEN p.slug
        ELSE EnsureLoop(docs, baseSlug, p.slug, p.counter, excludeID)

\* ensureUniqueSlug that stops probing after the first suffix
ensureUniqueSlugOnce(docs, baseSlug, excludeID) ==
    IF SlugMatches(docs, baseSlug, excludeID) = {} THEN baseSlug ELSE Suffixed(baseSlug, 1)

\* ContentModel.ensureUniqueSlug, run with no other call in between
ensureUniqueSlug(docs, baseSlug, excludeID) ==
    EnsureLoop(docs, baseSlug, baseSlug, 1, excludeID)

\* slug: { match: /^[a-z0-9-]+$/ }
SlugFormatOK(slug) == slug # <<>> /\ \A i \in 1..Len(slug) : slug[i] \in SlugChars

\* title: { required, minlength: 1, maxlength: 200 }
TitleOK(t) == t # <<>> /\ Len(t) <= TitleMaxLength

\* the collection without the unique index on slug
IndexesUniqueIDOnly(docs) ==
    \A d, e \in docs : d # e => d.ID # e.ID

\* the unique indexes of the collection (ID, slug) leave out no document
IndexesUnique(docs) ==
    \A d, e \in docs : d # e => d.ID # e.ID /\ d.slug # e.slug

\* status: { enum: ['draft', 'published', 'archived', 'scheduled'] }
ContentStatuses == {"draft", "published", "archived", "scheduled"}

\* content: { required: function() { return this.status === 'published' } }
BodyOK(status, body) == status = "published" => body # <<>>

\* BaseModel.insert: new this.model(data), then save() with schema validation
\* (lowercase setter on slug, default status) and the pre('save') hook, which
\* stamps created_at, and published_at on a published document, against the
\* unique indexes.  The field content is the body, created_at and
\* published_at are timestamps.created_at and timestamps.published_at,
\* view_count and last_viewed are metrics.view_count and metrics.last_viewed.
BaseInsert(docs, id, data) ==
    LET status == IF Has(data, "status") THEN data.status ELSE "draft"
        doc == [ID |-> id,
                title |-> IF Has(data, "title") THEN data.title ELSE <<>>,
                slug |-> IF Has(data, "slug") THEN toLowerCase(data.slug) ELSE <<>>,
                status |-> status,
                content |-> IF Has(data, "content") THEN data.content ELSE <<>>,
                created_at |-> now,
                published_at |-> IF status = "published" THEN now ELSE NullDate,
                view_count |-> 0,
                last_viewed |-> NullDate]
        ok == /\ TitleOK(doc.title)
              /\ SlugFormatOK(doc.slug)
              /\ doc.status \in ContentStatuses
              /\ BodyOK(doc.status, doc.content)
              /\ \A d \in docs : d.ID # doc.ID
              /\ IndexesUnique(docs \cup {doc})
    IN  [ok |-> ok, docs |-> IF ok THEN docs \cup {doc} ELSE docs, doc |-> doc]

\* runValidators on an update: the validators of the paths named in data
UpdateValid(data) ==
    /\ Has(data, "title") => TitleOK(data.title)
    /\ Has(data, "slug") => SlugFormatOK(toLowerCase(data.slug))
    /\ Has(data, "status") => data.status \in ContentStatuses

\* BaseModel.update: findOneAndUpdate({ ID }, { $set: data }, { runValidators }).
\* The validators of the paths named in data run on the values given for
\* them; a body, where data names one, is never the empty string.
BaseUpdate(docs, id, data) ==
    LET found == { d \in docs : d.ID = id }
        old == CHOOSE d \in found : TRUE
        set(f) == IF Has(data, f) THEN data[f] ELSE old[f]
        doc == [ID |-> set("ID"),
                title |-> set("title"),
                slug |-> IF Has(data, "slug") THEN toLowerCase(data.slug) ELSE old.slug,
                status |-> set("status"),
                content |-> set("content"),
                created_at |-> set("created_at"),
                published_at |-> set("published_at"),
                view_count |-> set("view_count"),
                last_viewed |-> set("last_viewed")]
        valid == UpdateValid(data)
        ok == /\ found # {}
              /\ valid
              /\ IndexesUnique((docs \ found) \cup {doc})
    IN  [ok |-> ok, docs |-> IF ok THEN (docs \ found) \cup {doc} ELSE docs,
         error |-> IF ok THEN ""
                   ELSE IF valid /\ found = {} THEN "Document not found"
                   ELSE "Update failed"]

NoCall == <<"?">>

\* ContentModel.insert, the random ID being id
Insert(id, data) ==
    /\ Cardinality(content) < MaxDocs
    /\ \E baseSlug \in { IF ~Truthy(data, "title") THEN NoCall
                          ELSE IF Truthy(data, "slug") THEN data.slug
                          ELSE generateSlug(data.title) } :
       \E unique \in { IF Truthy(data, "title")
                        THEN ensureUniqueSlug(content, baseSlug, NullID)
                        ELSE NoCall } :
       \E r \in { BaseInsert(content, id,
                              [f \in DOMAIN data \cup {"slug"} |->
                                  IF f = "slug" THEN unique ELSE data[f]]) } :
          LET ok == Truthy(data, "title") /\ r.ok
          IN  /\ content' = IF ok THEN r.docs ELSE content
              /\ last' = [op |-> "insert", ok |-> ok, ID |-> IF ok THEN id ELSE NullID,
                          data |-> data, base |-> baseSlug, unique |-> unique]
    /\ UNCHANGED <<media, tally, title, slugOut, calls, settings, writes,
                 probe, verdict, users, sessions, now>>

\* update that derives a slug from every new title, whether or not the
\* stored document has a slug
updateRederiveSlug(docs, id, data) ==
    LET baseSlug == IF Truthy(data, "slug") THEN data.slug ELSE NoCall
        unique == IF Truthy(data, "slug")
                  THEN ensureUniqueSlug(docs, baseSlug, id) ELSE NoCall
        data1 == IF Truthy(data, "slug") THEN [data EXCEPT !.slug = unique] ELSE data
        existing == { d \in docs : d.ID = id }
        derive == /\ Truthy(data1, "title") /\ ~Truthy(data1, "slug")
                  /\ existing # {}
        derived == ensureUniqueSlug(docs, generateSlug(data1.title), id)
        data2 == IF derive
                 THEN [f \in DOMAIN data1 \cup {"slug"} |->
                         IF f = "slug" THEN derived ELSE data1[f]]
                 ELSE data1
        r == BaseUpdate(docs, id, data2)
    IN  [ok |-> r.ok, docs |-> r.docs, error |-> r.error, set |-> data2,
         base |-> baseSlug, unique |-> unique]

\* ContentModel.update: the slug handling, then BaseModel.update with the data
\* it ends up with (set)
update(docs, id, data) ==
    LET baseSlug == IF Truthy(data, "slug") THEN data.slug ELSE NoCall
        unique == IF Truthy(data, "slug")
                  THEN ensureUniqueSlug(docs, baseSlug, id) ELSE NoCall
        data1 == IF Truthy(data, "slug") THEN [data EXCEPT !.slug = unique] ELSE data
        existing == { d \in docs : d.ID = id }
        derive == /\ Truthy(data1, "title") /\ ~Truthy(data1, "slug")
                  /\ \E d \in existing : d.slug = <<>>
        derived == ensureUniqueSlug(docs, generateSlug(data1.title), id)
        data2 == IF derive
                 THEN [f \in DOMAIN data1 \cup {"slug"} |->
                         IF f = "slug" THEN derived ELSE data1[f]]
                 ELSE data1
        r == BaseUpdate(docs, id, data2)
    IN  [ok |-> r.ok, docs |-> r.docs, error |-> r.error, set |-> data2,
         base |-> baseSlug, unique |-> unique]

\* ContentModel.update
Update(id, data) ==
    /\ \E r \in {update(content, id, data)} :
           /\ content' = r.docs
           /\ last' = [op |-> "update", ok |-> r.ok, ID |-> id, error |-> r.error,
                       data |-> data, base |-> r.base, unique |-> r.unique,
                       set |-> r.set]
    /\ UNCHANGED <<media, tally, title, slugOut, calls, settings, writes,
                   probe, verdict, users, sessions, now>>

Init ==
    /\ title = <<>>
    /\ slugOut = NotRun
    /\ content = {}
    /\ calls = <<>>
    /\ settings = {}
    /\ writes = 0
    /\ probe = <<>>
    /\ verdict = "notrun"
    /\ users = {}
    /\ sessions = {}
    /\ media = {}
    /\ tally = <<>>
    /\ now = 1
    /\ last = [op |-> "none"]

Next ==
    \/ \E id \in ContentIDs, data \in InsertInputs : Insert(id, data)
    \/ \E id \in ContentIDs, data \in UpdateInputs : Update(id, data)

Spec == Init /\ [][Next]_vars

(***************************************************************************)
(* validateValue as a pure function: the setting's type and validation     *)
(* rule and the candidate value are drawn from small sets that hold every  *)
(* case the method tells apart.                                            *)
(***************************************************************************)
StrA == <<"a">>
StrAb == <<"a","b">>
StrUpper == <<"A","b">>

ProbeTypes == {"string", "number"}

ProbeValidations ==
    {NoValidation} \cup
    { Validation(r, min, max, pat, opts) :
        r \in BOOLEAN,
        min \in {Undefined, Num(0), Num(2)},
        max \in {Undefined, Num(0), Num(1)},
        pat \in {Undefined, Str(<<>>), Str(PatternLower)},
        opts \in {<<>>, <<Str(StrAb), Num(-1)>>} }

ProbeValues ==
    {Undefined, Null, Str(<<>>), Str(StrA), Str(StrAb), Str(StrUpper),
     Num(-1), Num(0), Bool(TRUE)}

InitValidate ==
    /\ title = <<>>
    /\ slugOut = NotRun
    /\ content = {}
    /\ calls = <<>>
    /\ settings = {}
    /\ writes = 0
    /\ probe \in [setting : [type : ProbeTypes, validation : ProbeValidations],
                  value : ProbeValues]
    /\ verdict = "notrun"
    /\ users = {}
    /\ sessions = {}
    /\ media = {}
    /\ tally = <<>>
    /\ now = 1
    /\ last = [op |-> "none"]

CallValidateValue ==
    /\ verdict = "notrun"
    /\ verdict' = IF validateValue(probe.setting, probe.value) THEN "true" ELSE "false"
    /\ UNCHANGED <<media, tally, title, slugOut, content, calls, settings,
                 writes, probe, users, sessions, now, last>>

NextValidate == CallValidateValue

SpecValidate == InitValidate /\ [][NextValidate]_vars

\* C6: validateValue returns true when the setting has no validation rule;
\* otherwise it returns false exactly when the value is required and is null,
\* undefined or '', or the setting is string-typed and the value is a string
\* shorter than min_length, longer than max_length or not matching pattern,
\* or options is non-empty and does not contain the value.
ValidateValueAsDocumented ==
    verdict # "notrun" =>
        LET v == probe.setting.validation
            x == probe.value
        IN  IF v = NoValidation THEN verdict = "true"
            ELSE (verdict = "false") <=>
                   \/ v.required /\ x \in {Null, Undefined, Str(<<>>)}
                   \/ /\ probe.setting.type = "string"
                      /\ x.t = "string"
                      /\ \/ v.min_length.t = "number" /\ Len(x.s) < v.min_length.n
                         \/ v.max_length.t = "number" /\ Len(x.s) > v.max_length.n
                         \/ v.pattern.t = "string" /\ ~RegExpTest(v.pattern.s, x.s)
                   \/ /\ Len(v.options) > 0
                      /\ \A i \in 1..Len(v.options) : v.options[i] # x

(***************************************************************************)
(* SettingsModel over the settings collection, one call at a time.         *)
(***************************************************************************)
SettingTypes == {"string", "number", "boolean", "object", "array"}
SettingCategories ==
    {"general", "seo", "social", "email", "security", "appearance", "analytics", "custom"}
AccessLevels == {"public", "admin", "super_admin"}

SiteTitleMaxLength == 100
DescriptionMaxLength == 160
DefaultPostsPerPage == 10

MyWebsite == <<"M","y"," ","W","e","b","s","i","t","e">>
SiteDescription == 
    <<"A"," ","g","r","e","a","t"," ","w","e","b","s","i","t","e"," ","b","u","i","l","t"," ">> \o
    <<"w","i","t","h"," ","E","x","p","r","e","s","s",".","j","s">>
MetaDescription == <<"W","e","l","c","o","m","e"," ","t","o"," ","o","u","r"," ","w","e","b","s","i","t","e">>

Setting(key, value, type, category, label, validation, level, default) ==
    [key |-> key, value |-> value, type |-> type, category |-> category,
     label |-> label, validation |-> validation, access_level |-> level,
     default_value |-> default]

\* the defaultSettings array of initializeDefaults
DefaultSettings ==
    << Setting("site_title", Str(MyWebsite), "string", "general", "Site Title",
               Validation(TRUE, Undefined, Num(SiteTitleMaxLength), Undefined, <<>>),
               "admin", Undefined),
       Setting("site_description", Str(SiteDescription), "string", "general",
               "Site Description",
               Validation(FALSE, Undefined, Num(DescriptionMaxLength), Undefined, <<>>),
               "admin", Undefined),
       Setting("default_meta_description", Str(MetaDescription), "string", "seo",
               "Default Meta Description",
               Validation(FALSE, Undefined, Num(DescriptionMaxLength), Undefined, <<>>),
               "admin", Undefined),
       Setting("posts_per_page", Num(DefaultPostsPerPage), "number", "general",
               "Posts per Page",
               Validation(TRUE, Undefined, Undefined, Undefined, <<>>),
               "admin", Num(DefaultPostsPerPage)),
       Setting("enable_comments", Bool(TRUE), "boolean", "general", "Enable Comments",
               NoValidation, "admin", Bool(TRUE)),
       Setting("smtp_settings", Obj(<<"s","m","t","p">>), "object", "email",
               "SMTP Settings", NoValidation, "super_admin", Undefined) >>

DefaultKeys == { DefaultSettings[i].key : i \in 1..Len(DefaultSettings) }

Keys(docs) == { d.key : d \in docs }

\* findOne({ key }) over the unique key index
FindSetting(docs, key) == CHOOSE d \in docs : d.key = key

\* initializeDefaults that upserts with $set
initializeDefaultsOverwrite(docs) ==
    { d \in docs : d.key \notin DefaultKeys }
        \cup { DefaultSettings[i] : i \in 1..Len(DefaultSettings) }

\* SettingsSchema.statics.initializeDefaults: one upsert per default setting
\* with $setOnInsert, so that a document is written only where the key is absent
initializeDefaults(docs) ==
    docs \cup { DefaultSettings[i] : i \in { j \in 1..Len(DefaultSettings) :
                                               DefaultSettings[j].key \notin Keys(docs) } }

\* SettingsModel.getSetting
getSetting(docs, key) ==
    IF key \in Keys(docs) THEN FindSetting(docs, key).value ELSE Null

\* setSetting that reports success without writing the value
setSettingNoStore(docs, key, value) ==
    IF key \notin Keys(docs) THEN [ok |-> FALSE, docs |-> docs]
    ELSE [ok |-> validateValue(FindSetting(docs, key), value), docs |-> docs]

\* setSetting without the validateValue check
setSettingUnchecked(docs, key, value) ==
    IF key \notin Keys(docs) THEN [ok |-> FALSE, docs |-> docs]
    ELSE LET setting == FindSetting(docs, key)
         IN  [ok |-> TRUE,
              docs |-> (docs \ {setting}) \cup {[setting EXCEPT !.value = value]}]

\* SettingsModel.setSetting
setSetting(docs, key, value) ==
    IF key \notin Keys(docs) THEN [ok |-> FALSE, docs |-> docs]
    ELSE LET setting == FindSetting(docs, key)
         IN  IF ~validateValue(setting, value) THEN [ok |-> FALSE, docs |-> docs]
             ELSE [ok |-> TRUE,
                   docs |-> (docs \ {setting}) \cup {[setting EXCEPT !.value = value]}]

Field(data, f) == IF f \in DOMAIN data THEN data[f] ELSE Undefined

\* SettingsModel.createSetting: duplicate check, required fields, defaults,
\* then BaseModel.insert with the schema's validation and its pre('save') hook
createSetting(docs, data) ==
    LET exists == Has(data, "key") /\ data.key \in Keys(docs)
        complete == /\ Has(data, "key") /\ data.key # ""
                    /\ Has(data, "label") /\ data.label # ""
                    /\ Has(data, "type") /\ data.type # ""
                    /\ Has(data, "category") /\ data.category # ""
        doc == Setting(data.key, Field(data, "value"), data.type, data.category,
                       data.label,
                       IF Has(data, "validation") THEN data.validation ELSE NoValidation,
                       IF Has(data, "access_level") THEN data.access_level ELSE "admin",
                       Field(data, "default_value"))
        valid == /\ doc.value \notin {Null, Undefined}
                 /\ doc.type \in SettingTypes
                 /\ doc.category \in SettingCategories
                 /\ doc.access_level \in AccessLevels
                 /\ validateValue(doc, doc.value)
        ok == ~exists /\ complete /\ valid
    IN  [ok |-> ok, docs |-> IF ok THEN docs \cup {doc} ELSE docs]

\* the names an object literal inherits from Object.prototype
InheritedNames ==
    {"constructor", "__proto__", "toString", "toLocaleString", "valueOf",
     "hasOwnProperty", "isPrototypeOf", "propertyIsEnumerable",
     "__defineGetter__", "__defineSetter__", "__lookupGetter__", "__lookupSetter__"}

\* the levels table of getSettingsByAccessLevel, by own property
LevelsTable ==
    [public |-> {"public"},
     admin |-> {"public", "admin"},
     super_admin |-> {"public", "admin", "super_admin"}]

\* SettingsModel.getSettingsByAccessLevel: the results the call can have.
\* levels[accessLevel] is the level list for an own property and undefined,
\* replaced by ['public'], for an unknown name; for a name inherited from
\* Object.prototype it is a truthy value that is no list of levels, and the
\* query either matches no access_level or is refused.
getSettingsByAccessLevel(docs, accessLevel) ==
    IF accessLevel \in DOMAIN LevelsTable
    THEN { [ok |-> TRUE,
            docs |-> { d \in docs : d.access_level \in LevelsTable[accessLevel] }] }
    ELSE IF accessLevel \in InheritedNames
    THEN { [ok |-> TRUE, docs |-> {}], [ok |-> FALSE, docs |-> {}] }
    ELSE { [ok |-> TRUE, docs |-> { d \in docs : d.access_level \in {"public"} }] }

\* publicSettings[setting.key] = setting.value on an object literal: an own
\* property, except for __proto__, whose assignment reaches the prototype setter
OwnKeysAssigned(docs) == { k \in Keys(docs) : k # "__proto__" }

\* SettingsModel.getPublicSettings
getPublicSettings(docs) ==
    LET public == { d \in docs : d.access_level = "public" }
    IN  [k \in OwnKeysAssigned(public) |-> FindSetting(public, k).value]

\* the loop of bulkUpdateSettings over Object.entries(settingsData): one
\* setSetting per entry inside its own try/catch, one result pushed per entry
RECURSIVE BulkLoop(_, _, _, _)
BulkLoop(docs, entries, i, results) ==
    IF i > Len(entries) THEN [ok |-> TRUE, docs |-> docs, results |-> results]
    ELSE LET r == setSetting(docs, entries[i].key, entries[i].value)
         IN  BulkLoop(r.docs, entries, i + 1,
                      Append(results, [key |-> entries[i].key, success |-> r.ok]))

\* the same loop without the inner try/catch: the first failing entry ends the call
RECURSIVE BulkLoopAbort(_, _, _, _)
BulkLoopAbort(docs, entries, i, results) ==
    IF i > Len(entries) THEN [ok |-> TRUE, docs |-> docs, results |-> results]
    ELSE LET r == setSetting(docs, entries[i].key, entries[i].value)
         IN  IF ~r.ok THEN [ok |-> FALSE, docs |-> docs, results |-> results]
             ELSE BulkLoopAbort(r.docs, entries, i + 1,
                                Append(results, [key |-> entries[i].key, success |-> TRUE]))

\* bulkUpdateSettings that gives up at the first failing entry
bulkUpdateSettingsAbort(docs, entries) == BulkLoopAbort(docs, entries, 1, <<>>)

\* SettingsModel.bulkUpdateSettings
bulkUpdateSettings(docs, entries) == BulkLoop(docs, entries, 1, <<>>)

\* findOneAndUpdate({ key }, settingData, { new: true }): the fields named in
\* settingData are set on the stored document, with no validator run
OverwriteSetting(doc, settingData) ==
    [f \in DOMAIN doc |-> IF f \in DOMAIN settingData THEN settingData[f] ELSE doc[f]]

\* one turn of the loop of importSettings
ImportItem(docs, settingData, overwriteExisting) ==
    LET existing == Has(settingData, "key") /\ settingData.key \in Keys(docs)
    IN  IF existing /\ ~overwriteExisting THEN [ok |-> FALSE, docs |-> docs]
        ELSE IF existing
        THEN LET setting == FindSetting(docs, settingData.key)
             IN  [ok |-> TRUE,
                  docs |-> (docs \ {setting}) \cup {OverwriteSetting(setting, settingData)}]
        ELSE createSetting(docs, settingData)

RECURSIVE ImportLoop(_, _, _, _, _)
ImportLoop(docs, settingsArray, overwriteExisting, i, results) ==
    IF i > Len(settingsArray) THEN [ok |-> TRUE, docs |-> docs, results |-> results]
    ELSE LET r == ImportItem(docs, settingsArray[i], overwriteExisting)
         IN  ImportLoop(r.docs, settingsArray, overwriteExisting, i + 1,
                        Append(results, [key |-> settingsArray[i].key, success |-> r.ok]))

\* SettingsModel.importSettings
importSettings(docs, settingsArray, overwriteExisting) ==
    ImportLoop(docs, settingsArray, overwriteExisting, 1, <<>>)

\* resetSettingToDefault without the check for a declared default_value
resetSettingToDefaultUnchecked(docs, key) ==
    IF key \notin Keys(docs) THEN [ok |-> FALSE, docs |-> docs]
    ELSE LET setting == FindSetting(docs, key)
         IN  [ok |-> TRUE,
              docs |-> (docs \ {setting})
                          \cup {[setting EXCEPT !.value = setting.default_value]}]

\* SettingsModel.resetSettingToDefault
resetSettingToDefault(docs, key) ==
    IF key \notin Keys(docs) THEN [ok |-> FALSE, docs |-> docs]
    ELSE LET setting == FindSetting(docs, key)
         IN  IF setting.default_value = Undefined THEN [ok |-> FALSE, docs |-> docs]
             ELSE [ok |-> TRUE,
                   docs |-> (docs \ {setting})
                               \cup {[setting EXCEPT !.value = setting.default_value]}]

Dark ==<<"d","a","r","k">>
Light == <<"l","i","g","h","t">>
Blue == <<"b","l","u","e">>
LongTitle == [i \in 1..(SiteTitleMaxLength + 1) |-> "x"]

\* the settingData objects handed to createSetting
ThemeSetting ==
    [key |-> "theme", value |-> Str(Dark), type |-> "string", category |-> "appearance",
     label |-> "Theme",
     validation |-> Validation(FALSE, Undefined, Undefined, Undefined,
                               <<Str(Dark), Str(Light)>>),
     access_level |-> "public", default_value |-> Str(Dark)]

CustomSettings ==
    { ThemeSetting,
      [ThemeSetting EXCEPT !.value = Str(Blue)],
      [key |-> "theme", value |-> Str(Dark), type |-> "string", category |-> "appearance"],
      [key |-> "__proto__", value |-> Num(1), type |-> "number", category |-> "custom",
       label |-> "Proto", access_level |-> "public"],
      [key |-> "banner", value |-> Str(Dark), type |-> "string", category |-> "custom",
       label |-> "Banner"] }

SetKeys == {"site_title", "posts_per_page", "theme", "banner", "missing"}
SetValues == {Null, Str(<<>>), Str(Dark), Str(LongTitle), Num(-1)}
AskedLevels == {"public", "admin", "super_admin", "editor", "constructor"}

\* Object.entries(settingsData) of the objects handed to bulkUpdateSettings
BulkEntries ==
    { << [key |-> "site_title", value |-> Str(LongTitle)],
         [key |-> "posts_per_page", value |-> Num(-1)] >>,
      << [key |-> "missing", value |-> Str(Dark)],
         [key |-> "theme", value |-> Str(Light)],
         [key |-> "site_title", value |-> Str(Dark)] >>,
      << [key |-> "posts_per_page", value |-> Null],
         [key |-> "site_title", value |-> Str(Dark)] >> }

\* the arrays handed to importSettings
ImportArrays ==
    { << ThemeSetting, [ThemeSetting EXCEPT !.value = Str(Blue)] >>,
      << [key |-> "theme", value |-> Str(Dark), type |-> "string",
          category |-> "appearance"],
         [key |-> "banner", value |-> Str(Dark), type |-> "string",
          category |-> "custom", label |-> "Banner"] >>,
      << [key |-> "site_title", value |-> Str(LongTitle)],
         [key |-> "banner", value |-> Str(Light), type |-> "string",
          category |-> "custom", label |-> "Banner"] >> }

InitializeDefaults ==
    /\ writes < MaxWrites
    /\ writes' = writes + 1
    /\ settings' = initializeDefaults(settings)
    /\ last' = [op |-> "initializeDefaults", pre |-> settings]
    /\ UNCHANGED <<media, tally, title, slugOut, content, calls,
                 probe, verdict, users, sessions, now>>

SetSetting(key, value) ==
    /\ writes < MaxWrites
    /\ writes' = writes + 1
    /\ LET r == setSetting(settings, key, value)
       IN  /\ settings' = r.docs
           /\ last' = [op |-> "setSetting", key |-> key, value |-> value,
                       ok |-> r.ok, pre |-> settings]
    /\ UNCHANGED <<media, tally, title, slugOut, content, calls,
                 probe, verdict, users, sessions, now>>

CreateSetting(data) ==
    /\ writes < MaxWrites
    /\ writes' = writes + 1
    /\ LET r == createSetting(settings, data)
       IN  /\ settings' = r.docs
           /\ last' = [op |-> "createSetting", data |-> data, ok |-> r.ok,
                       pre |-> settings]
    /\ UNCHANGED <<media, tally, title, slugOut, content, calls,
                 probe, verdict, users, sessions, now>>

BulkUpdateSettings(entries) ==
    /\ writes < MaxWrites
    /\ writes' = writes + 1
    /\ LET r == bulkUpdateSettings(settings, entries)
       IN  /\ settings' = r.docs
           /\ last' = [op |-> "bulkUpdateSettings", items |-> entries, ok |-> r.ok,
                       results |-> r.results, pre |-> settings]
    /\ UNCHANGED <<media, tally, title, slugOut, content, calls,
                 probe, verdict, users, sessions, now>>

ImportSettings(settingsArray, overwriteExisting) ==
    /\ writes < MaxWrites
    /\ writes' = writes + 1
    /\ LET r == importSettings(settings, settingsArray, overwriteExisting)
       IN  /\ settings' = r.docs
           /\ last' = [op |-> "importSettings", items |-> settingsArray,
                       overwrite |-> overwriteExisting, ok |-> r.ok,
                       results |-> r.results, pre |-> settings]
    /\ UNCHANGED <<media, tally, title, slugOut, content, calls,
                 probe, verdict, users, sessions, now>>

ResetSettingToDefault(key) ==
    /\ writes < MaxWrites
    /\ writes' = writes + 1
    /\ LET r == resetSettingToDefault(settings, key)
       IN  /\ settings' = r.docs
           /\ last' = [op |-> "resetSettingToDefault", key |-> key, ok |-> r.ok,
                       pre |-> settings]
    /\ UNCHANGED <<media, tally, title, slugOut, content, calls,
                 probe, verdict, users, sessions, now>>

GetSetting(key) ==
    /\ last' = [op |-> "getSetting", key |-> key, result |-> getSetting(settings, key)]
    /\ UNCHANGED <<media, tally, title, slugOut, content, calls, settings,
                 writes, probe, verdict, users, sessions, now>>

GetSettingsByAccessLevel(level) ==
    /\ \E r \in getSettingsByAccessLevel(settings, level) :
           last' = [op |-> "getSettingsByAccessLevel", level |-> level,
                    ok |-> r.ok, result |-> r.docs]
    /\ UNCHANGED <<media, tally, title, slugOut, content, calls, settings,
                 writes, probe, verdict, users, sessions, now>>

GetPublicSettings ==
    /\ last' = [op |-> "getPublicSettings", result |-> getPublicSettings(settings)]
    /\ UNCHANGED <<media, tally, title, slugOut, content, calls, settings,
                 writes, probe, verdict, users, sessions, now>>

InitSettings ==
    /\ title = <<>>
    /\ slugOut = NotRun
    /\ content = {}
    /\ calls = <<>>
    /\ settings = {}
    /\ writes = 0
    /\ probe = <<>>
    /\ verdict = "notrun"
    /\ users = {}
    /\ sessions = {}
    /\ media = {}
    /\ tally = <<>>
    /\ now = 1
    /\ last = [op |-> "none"]

NextSettings ==
    \/ InitializeDefaults
    \/ \E key \in SetKeys, value \in SetValues : SetSetting(key, value)
    \/ \E data \in CustomSettings : CreateSetting(data)
    \/ \E entries \in BulkEntries : BulkUpdateSettings(entries)
    \/ \E settingsArray \in ImportArrays, overwriteExisting \in BOOLEAN :
           ImportSettings(settingsArray, overwriteExisting)
    \/ \E key \in SetKeys : ResetSettingToDefault(key)
    \/ \E key \in SetKeys : GetSetting(key)
    \/ \E level \in AskedLevels : GetSettingsByAccessLevel(level)
    \/ GetPublicSettings

SpecSettings == InitSettings /\ [][NextSettings]_vars

\* C5: setSetting on a declared key fails exactly when the setting's
\* validateValue rejects the value, on an undeclared key it always fails; a
\* failed call leaves the collection as it was, and after a successful one
\* getSetting returns the value.
SetSettingValidated ==
    last.op = "setSetting" =>
        /\ last.key \in Keys(last.pre) =>
              (last.ok <=> validateValue(FindSetting(last.pre, last.key), last.value))
        /\ last.key \notin Keys(last.pre) => ~last.ok
        /\ ~last.ok => settings = last.pre
        /\ last.ok => getSetting(settings, last.key) = last.value

\* site_title exists and an over-long title has just been refused
SetSettingRejectedWitness ==
    /\ last.op = "setSetting"
    /\ last.key \in Keys(last.pre)
    /\ last.value = Str(LongTitle)
    /\ ~last.ok
    /\ \E d \in settings : d.key = last.key /\ d.value = Str(MyWebsite)

\* C7: on a number-typed setting whose validation is required with no
\* options (posts_per_page as seeded), setSetting with -1 succeeds and the
\* stored value becomes -1.
NegativeNumberAccepted ==
    ( /\ last.op = "setSetting"
      /\ last.value = Num(-1)
      /\ \E d \in last.pre :
            /\ d.key = last.key
            /\ d.type = "number"
            /\ d.validation # NoValidation
            /\ d.validation.required
            /\ d.validation.options = <<>> )
    => /\ last.ok
       /\ \E d \in settings : d.key = last.key /\ d.value = Num(-1)

\* posts_per_page was seeded and has just been set to -1
NegativeNumberWitness ==
    /\ last.op = "setSetting"
    /\ last.key = "posts_per_page"
    /\ last.value = Num(-1)
    /\ \E d \in last.pre : d.key = "posts_per_page" /\ d.value = Num(DefaultPostsPerPage)
    /\ \E d \in settings : d.key = "posts_per_page" /\ d.value = Num(-1)

\* the access levels a caller of the given level may see
VisibleLevels(level) ==
    CASE level = "public" -> {"public"}
      [] level = "admin" -> {"public", "admin"}
      [] level = "super_admin" -> {"public", "admin", "super_admin"}
      [] OTHER -> {"public"}

\* C8: getSettingsByAccessLevel returns exactly the settings whose
\* access_level is in the cumulative set of the level, and the public
\* settings for any level it does not know.
AccessLevelsCumulative ==
    last.op = "getSettingsByAccessLevel" =>
        /\ last.ok
        /\ last.result = { d \in settings : d.access_level \in VisibleLevels(last.level) }

\* C9: getPublicSettings returns a flat mapping whose keys are exactly the
\* keys of the public settings, each with the setting's current value, and
\* never the key of an admin or super_admin setting.
PublicSettingsFlat ==
    last.op = "getPublicSettings" =>
        /\ DOMAIN last.result = { d.key : d \in { e \in settings : e.access_level = "public" } }
        /\ \A d \in settings :
              /\ d.access_level = "public" /\ d.key \in DOMAIN last.result
                    => last.result[d.key] = d.value
              /\ d.access_level # "public" => d.key \notin DOMAIN last.result

ItemAlone(docs, item) ==
    IF last.op = "bulkUpdateSettings"
    THEN setSetting(docs, item.key, item.value)
    ELSE ImportItem(docs, item, last.overwrite)

\* the collection after the first n items of the last batch, each applied
\* on its own
RECURSIVE AfterItems(_)
AfterItems(n) ==
    IF n = 0 THEN last.pre ELSE ItemAlone(AfterItems(n - 1), last.items[n]).docs

ResetToDefaultChecked ==
    last.op = "resetSettingToDefault" =>
        LET declared == /\ last.key \in Keys(last.pre)
                        /\ FindSetting(last.pre, last.key).default_value # Undefined
        IN  /\ ~declared => ~last.ok /\ settings = last.pre
            /\ declared =>
                  /\ last.ok
                  /\ getSetting(settings, last.key)
                        = FindSetting(last.pre, last.key).default_value
                  /\ Keys(settings) = Keys(last.pre)
                  /\ \A d \in last.pre : d.key # last.key => d \in settings

\* posts_per_page had been set to -1 and is back at its default
ResetToDefaultWitness ==
    /\ last.op = "resetSettingToDefault"
    /\ last.ok
    /\ getSetting(last.pre, last.key) = Num(-1)
    /\ getSetting(settings, last.key) = Num(DefaultPostsPerPage)

\* C23: every stored setting's value is accepted by that setting's own
\* validateValue.
StoredValuesValid ==
    \A d \in settings : validateValue(d, d.value)

(***************************************************************************)
(* The same two handlers with the event loop in view: a call gives up      *)
(* control at every await (each findOne of the probing loop, the findById  *)
(* of update, the final write), and the calls of other callers run in      *)
(* between.                                                                *)
(***************************************************************************)
Callers == 1..NumCallers

\* a short title, its slug and the first suffixed form of it
AB == <<"A"," ","b","!">>
ABSlug == <<"a","-","b">>
ABSlug1 == <<"a","-","b","-","1">>

ConcInsertInputs ==
    { [title |-> AB],
      [title |-> AB, slug |-> ABSlug1],
      [title |-> <<>>, slug |-> ABSlug] }

RaceIDs == 1..MaxRaceDocs

ConcUpdateInputs ==
    { [slug |-> ABSlug],
      [title |-> Bangs] }

Idle == [pc |-> "idle"]

InFlightInserts == { c \in Callers : calls[c].pc # "idle" /\ calls[c].op = "insert" }

\* insert up to its first await: defaults, title check, generateSlug
BeginInsert(c, data) ==
    /\ calls[c].pc = "idle"
    /\ Cardinality(content) + Cardinality(InFlightInserts) < MaxRaceDocs
    /\ \E baseSlug \in { IF ~Truthy(data, "title") THEN NoCall
                          ELSE IF Truthy(data, "slug") THEN data.slug
                          ELSE generateSlug(data.title) } :
           calls' = [calls EXCEPT ![c] =
                IF ~Truthy(data, "title") THEN Idle
                ELSE [pc |-> "probe", op |-> "insert", ID |-> NullID, data |-> data,
                      base |-> baseSlug, slug |-> baseSlug, counter |-> 1]]
    /\ UNCHANGED <<media, tally, title, slugOut, content, settings, writes,
                 probe, verdict, users, sessions, now, last>>

\* update up to its first await
BeginUpdate(c, id, data) ==
    /\ calls[c].pc = "idle"
    /\ calls' = [calls EXCEPT ![c] =
            IF Truthy(data, "slug")
            THEN [pc |-> "probe", op |-> "update", ID |-> id, data |-> data,
                  base |-> data.slug, slug |-> data.slug, counter |-> 1]
            ELSE [pc |-> IF Truthy(data, "title") THEN "find" ELSE "save",
                  op |-> "update", ID |-> id, data |-> data,
                  base |-> NoCall, slug |-> NoCall, counter |-> 1]]
    /\ UNCHANGED <<media, tally, title, slugOut, content, settings, writes,
                 probe, verdict, users, sessions, now, last>>

\* await this.findOne(query) inside ensureUniqueSlug, and what follows it
\* up to the next await
Probe(c) ==
    /\ calls[c].pc = "probe"
    /\ \E k \in {calls[c]} :
       \E p \in {ProbeSlug(content, k.base, k.slug, k.counter, k.ID)} :
           calls' = [calls EXCEPT ![c] =
                IF p.done
                THEN [k EXCEPT !.pc = "save",
                               !.data = [f \in DOMAIN k.data \cup {"slug"} |->
                                           IF f = "slug" THEN p.slug ELSE k.data[f]]]
                ELSE [k EXCEPT !.slug = p.slug, !.counter = p.counter]]
    /\ UNCHANGED <<media, tally, title, slugOut, content, settings, writes,
                 probe, verdict, users, sessions, now, last>>

\* await this.findById(ID) of update, for a new title without a slug
FindExisting(c) ==
    /\ calls[c].pc = "find"
    /\ \E k \in {calls[c]} :
       \E baseSlug \in {generateSlug(k.data.title)} :
           calls' = [calls EXCEPT ![c] =
                IF \E d \in content : d.ID = k.ID /\ d.slug = <<>>
                THEN [k EXCEPT !.pc = "probe", !.base = baseSlug, !.slug = baseSlug]
                ELSE [k EXCEPT !.pc = "save"]]
    /\ UNCHANGED <<media, tally, title, slugOut, content, settings, writes,
                 probe, verdict, users, sessions, now, last>>

\* await super.insert(contentData), the random ID being id
SaveInsert(c, id) ==
    /\ calls[c].pc = "save"
    /\ calls[c].op = "insert"
    /\ content' = BaseInsert(content, id, calls[c].data).docs
    /\ calls' = [calls EXCEPT ![c] = Idle]
    /\ UNCHANGED <<media, tally, title, slugOut, settings, writes, probe,
                 verdict, users, sessions, now, last>>

\* await super.update(ID, data)
SaveUpdate(c) ==
    /\ calls[c].pc = "save"
    /\ calls[c].op = "update"
    /\ content' = BaseUpdate(content, calls[c].ID, calls[c].data).docs
    /\ calls' = [calls EXCEPT ![c] = Idle]
    /\ UNCHANGED <<media, tally, title, slugOut, settings, writes, probe,
                 verdict, users, sessions, now, last>>

InitConc ==
    /\ title = <<>>
    /\ slugOut = NotRun
    /\ content = {}
    /\ calls = [c \in Callers |-> Idle]
    /\ settings = {}
    /\ writes = 0
    /\ probe = <<>>
    /\ verdict = "notrun"
    /\ users = {}
    /\ sessions = {}
    /\ media = {}
    /\ tally = <<>>
    /\ now = 1
    /\ last = [op |-> "none"]

NextConc ==
    \/ \E c \in Callers, data \in ConcInsertInputs : BeginInsert(c, data)
    \/ \E c \in Callers, id \in RaceIDs, data \in ConcUpdateInputs : BeginUpdate(c, id, data)
    \/ \E c \in Callers : Probe(c)
    \/ \E c \in Callers : FindExisting(c)
    \/ \E c \in Callers, id \in RaceIDs : SaveInsert(c, id)
    \/ \E c \in Callers : SaveUpdate(c)

SpecConc == InitConc /\ [][NextConc]_vars

\* C4: whatever the order and interleaving of insert and update calls, no
\* two content documents have the same slug.
SlugsGloballyUnique ==
    \A d, e \in content : d.slug = e.slug => d = e

\* two calls had both found the same slug free before either wrote, and the
\* collection holds the document of the one that wrote first
SlugRaceWitness ==
    \E c \in Callers :
        /\ calls[c].pc = "save"
        /\ \E d \in content : d.ID # calls[c].ID /\ d.slug = calls[c].data.slug

UsedSlugs(docs) == { d.slug : d \in docs }

\* the documents ensureUniqueSlug of the last call looked at: every document
\* but the one the call created or was told to exclude
LastOthers == { d \in content : d.ID # last.ID }

LastRanEnsure == last.op \in {"insert", "update"} /\ last.base # NoCall

\* C2: ensureUniqueSlug(B) returns B when no document has slug B, otherwise
\* B-N for the smallest N >= 1 with B-N unused; the slug it returns is never
\* the slug of an existing document other than the excluded one.
EnsureUniqueSlugLowestFree ==
    LastRanEnsure =>
        LET used == UsedSlugs(LastOthers)
            B == last.base
            R == last.unique
        IN  /\ R \notin used
            /\ last.op = "insert" =>
                 /\ B \notin used => R = B
                 /\ B \in used =>
                      \E N \in 1..Cardinality(LastOthers) :
                          /\ R = Suffixed(B, N)
                          /\ \A M \in 1..(N - 1) : Suffixed(B, M) \in used

\* an insert found both B and B-1 taken and was given B-2
EnsureUniqueSlugWitness ==
    /\ LastRanEnsure
    /\ last.op = "insert"
    /\ last.ok
    /\ {last.base, Suffixed(last.base, 1)} \subseteq UsedSlugs(LastOthers)
    /\ last.unique = Suffixed(last.base, 2)

\* base, base-1, base-2, ...
NthSlug(baseSlug, k) == IF k = 0 THEN baseSlug ELSE Suffixed(baseSlug, k)

LastInsertedSlug == (CHOOSE d \in content : d.ID = last.ID).slug

UserIDs == 1..MaxUsers          \* values crypto.randomBytes can produce

UsernameMinLength == 3
UsernameMaxLength == 30
UserRoles == {"super_admin", "admin", "editor", "author", "contributor"}
UserStatuses == {"active", "inactive", "suspended", "pending"}

Alice == <<"a","l","i","c","e">>
Bob == <<"b","o","b">>
Al == <<"a","l">>
AliceMail == <<"a","@","x",".","i","o">>
AliceMailCaps == <<"A","@","x",".","i","o">>
BobMail == <<"b","@","x",".","i","o">>
NoAtMail == <<"b",".","i","o">>

\* username: { minlength: 3, maxlength: 30, match: /^[a-zA-Z0-9_]+$/ }
UsernameOK(u) ==
    /\ Len(u) >= UsernameMinLength
    /\ Len(u) <= UsernameMaxLength
    /\ \A i \in 1..Len(u) :
          u[i] \in LowerChars \cup {UpperSeq[k] : k \in 1..26} \cup DigitChars \cup {"_"}

\* email: { match: /^[^\s@]+@[^\s@]+\.[^\s@]+$/ }
EmailOK(e) ==
    /\ \A i \in 1..Len(e) : e[i] \notin SpaceChars
    /\ Cardinality({ i \in 1..Len(e) : e[i] = "@" }) = 1
    /\ LET at == CHOOSE i \in 1..Len(e) : e[i] = "@"
       IN  /\ at >= 2
           /\ \E dot \in (at + 2)..(Len(e) - 1) : e[dot] = "."

\* the users collection without the unique indexes on username and email
UserIndexesUniqueIDOnly(docs) ==
    \A d, e \in docs : d # e => d.ID # e.ID

\* the unique indexes of the users collection: ID, username, email
UserIndexesUnique(docs) ==
    \A d, e \in docs :
        d # e => d.ID # e.ID /\ d.username # e.username /\ d.email # e.email

\* BaseModel.insert on the User model: new this.model(userData) with the
\* schema's defaults and its lowercase setter on email, the pre('save') hook
\* that draws a verification token, validation, and the unique indexes
BaseInsertUser(docs, id, userData) ==
    LET doc == [ID |-> id,
                username |-> userData.username,
                email |-> toLowerCase(userData.email),
                role |-> userData.role,
                status |-> userData.status,
                email_verified_at |-> NullDate,
                email_verification_token |-> "token",
                failed_login_attempts |-> 0,
                last_failed_login |-> NullDate]
        ok == /\ UsernameOK(doc.username)
              /\ EmailOK(doc.email)
              /\ Has(userData, "salt")
              /\ doc.role \in UserRoles
              /\ doc.status \in UserStatuses
              /\ UserIndexesUnique(docs \cup {doc})
              /\ Cardinality(docs \cup {doc}) = Cardinality(docs) + 1
    IN  [ok |-> ok, docs |-> IF ok THEN docs \cup {doc} ELSE docs]

\* BaseModel.update on the User model: findOneAndUpdate({ ID }, { $set: data },
\* { new: true, runValidators: true })
BaseUpdateUser(docs, id, data) ==
    LET found == { d \in docs : d.ID = id }
        old == CHOOSE d \in found : TRUE
        doc == [f \in DOMAIN old |-> IF f \in DOMAIN data THEN data[f] ELSE old[f]]
        ok == /\ found # {}
              /\ Has(data, "status") => data.status \in UserStatuses
    IN  [ok |-> ok, docs |-> IF ok THEN (docs \ found) \cup {doc} ELSE docs]

\* what findOne gives when no document matches
NoUser == [ID |-> NullID]

\* the value the filter { email: data.email } is sent with: as given, or as
\* the schema's lowercase setter casts it
EmailFilterForms(e) == {e, toLowerCase(e)}

\* findOne({ $or: [{ username }, { email }] }): null, or any one of the matches
FindUserByNameOrEmail(docs, username, email) ==
    UNION { LET matches == { u \in docs : u.username = username \/ u.email = q }
            IN  IF matches = {} THEN {NoUser} ELSE matches
            : q \in EmailFilterForms(email) }

\* { role: 'contributor', status: 'pending', ...data }
UserDefaults(data) ==
    [f \in DOMAIN data \cup {"role", "status"} |->
        IF f \in DOMAIN data THEN data[f]
        ELSE IF f = "role" THEN "contributor" ELSE "pending"]

\* UserModel.insert, the random ID being id: the outcomes the call can have
UserInsert(docs, id, data) ==
    IF ~(Truthy(data, "username") /\ Truthy(data, "email") /\ Has(data, "password_hash"))
    THEN { [ok |-> FALSE, error |-> "Username, email, and password are required",
            docs |-> docs] }
    ELSE { IF existingUser # NoUser /\ existingUser.username = data.username
           THEN [ok |-> FALSE, error |-> "Username already exists", docs |-> docs]
           ELSE IF existingUser # NoUser /\ existingUser.email = data.email
           THEN [ok |-> FALSE, error |-> "Email already exists", docs |-> docs]
           ELSE LET r == BaseInsertUser(docs, id, UserDefaults(data))
                IN  [ok |-> r.ok, error |-> IF r.ok THEN "" ELSE "Insert failed",
                     docs |-> r.docs]
           : existingUser \in FindUserByNameOrEmail(docs, data.username, data.email) }

\* UserModel.verifyEmail
verifyEmail(docs, userId) ==
    BaseUpdateUser(docs, userId,
                   [email_verified_at |-> now, email_verification_token |-> "null",
                    status |-> "active"])

\* UserModel.suspendUser
suspendUser(docs, userId) == BaseUpdateUser(docs, userId, [status |-> "suspended"])

\* UserModel.activateUser
activateUser(docs, userId) == BaseUpdateUser(docs, userId, [status |-> "active"])

\* the data objects handed to UserModel.insert
UserInputs ==
    { [username |-> Alice, email |-> AliceMailCaps, password_hash |-> "h", salt |-> "s"],
      [username |-> Alice, email |-> BobMail, password_hash |-> "h", salt |-> "s"],
      [username |-> Bob, email |-> AliceMailCaps, password_hash |-> "h", salt |-> "s"],
      [username |-> Bob, email |-> AliceMail, password_hash |-> "h", salt |-> "s"],
      [username |-> Bob, email |-> BobMail, password_hash |-> "h", salt |-> "s"],
      [username |-> Bob, email |-> BobMail, password_hash |-> "h", salt |-> "s",
       status |-> "inactive"],
      [username |-> Al, email |-> BobMail, password_hash |-> "h", salt |-> "s"],
      [username |-> Bob, email |-> NoAtMail, password_hash |-> "h", salt |-> "s"],
      [username |-> Bob, email |-> BobMail, password_hash |-> "h"],
      [email |-> BobMail, password_hash |-> "h", salt |-> "s"] }

InsertUser(id, data) ==
    /\ \E r \in UserInsert(users, id, data) :
          /\ users' = r.docs
          /\ last' = [op |-> "insertUser", ok |-> r.ok, error |-> r.error,
                      ID |-> id, data |-> data, pre |-> users]
    /\ UNCHANGED <<media, tally, title, slugOut, content, calls, settings, writes,
                   probe, verdict, sessions, now>>

VerifyEmail(userId) ==
    /\ LET r == verifyEmail(users, userId)
       IN  /\ users' = r.docs
           /\ last' = [op |-> "verifyEmail", ok |-> r.ok, ID |-> userId, pre |-> users]
    /\ UNCHANGED <<media, tally, title, slugOut, content, calls, settings, writes,
                   probe, verdict, sessions, now>>

SuspendUser(userId) ==
    /\ LET r == suspendUser(users, userId)
       IN  /\ users' = r.docs
           /\ last' = [op |-> "suspendUser", ok |-> r.ok, ID |-> userId, pre |-> users]
    /\ UNCHANGED <<media, tally, title, slugOut, content, calls, settings, writes,
                   probe, verdict, sessions, now>>

ActivateUser(userId) ==
    /\ LET r == activateUser(users, userId)
       IN  /\ users' = r.docs
           /\ last' = [op |-> "activateUser", ok |-> r.ok, ID |-> userId, pre |-> users]
    /\ UNCHANGED <<media, tally, title, slugOut, content, calls, settings, writes,
                   probe, verdict, sessions, now>>

\* time passes between calls
Tick ==
    /\ now < MaxClock
    /\ now' = now + 1
    /\ UNCHANGED <<media, tally, title, slugOut, content, calls, settings, writes,
                   probe, verdict, users, sessions, last>>

InitUsers ==
    /\ title = <<>>
    /\ slugOut = NotRun
    /\ content = {}
    /\ calls = <<>>
    /\ settings = {}
    /\ writes = 0
    /\ probe = <<>>
    /\ verdict = "notrun"
    /\ users = {}
    /\ sessions = {}
    /\ media = {}
    /\ tally = <<>>
    /\ now = 1
    /\ last = [op |-> "none"]

NextUsers ==
    \/ \E id \in UserIDs, data \in UserInputs : InsertUser(id, data)
    \/ \E id \in UserIDs : VerifyEmail(id)
    \/ \E id \in UserIDs : SuspendUser(id)
    \/ \E id \in UserIDs : ActivateUser(id)

SpecUsers == InitUsers /\ [][NextUsers]_vars

\* the stored form of an email address
StoredEmail(e) == toLowerCase(e)

\* C13: an insert that carries the required fields and an email some user
\* already has, under a username nobody has, fails with "Email already
\* exists"; one that carries a username some user already has, and an email
\* that no user of another name has, fails with "Username already exists";
\* either way the users collection is left as it was.
DuplicateUserRejected ==
    ( /\ last.op = "insertUser"
      /\ Truthy(last.data, "username") /\ Truthy(last.data, "email")
      /\ Has(last.data, "password_hash") )
    => /\ ( /\ \E u \in last.pre : u.email = StoredEmail(last.data.email)
            /\ \A u \in last.pre : u.username # last.data.username )
          => /\ ~last.ok
             /\ last.error = "Email already exists"
             /\ users = last.pre
       /\ ( /\ \E u \in last.pre : u.username = last.data.username
            /\ \A u \in last.pre : u.email = StoredEmail(last.data.email)
                                      => u.username = last.data.username )
          => /\ ~last.ok
             /\ last.error = "Username already exists"
             /\ users = last.pre

\* C18: a successful verifyEmail clears the verification token, sets
\* email_verified_at, makes a pending user active and leaves the status of
\* any other user as it was.
VerifyEmailPromotesPending ==
    (last.op = "verifyEmail" /\ last.ok) =>
        \E old \in last.pre, new \in users :
            /\ old.ID = last.ID /\ new.ID = last.ID
            /\ new.email_verification_token = "null"
            /\ new.email_verified_at # NullDate
            /\ new.status = IF old.status = "pending" THEN "active" ELSE old.status

(***************************************************************************)
(* Sessions.  Instants and durations are counted in hours: Date.now() is   *)
(* the clock, expires_in and additionalSeconds are whole hours.  A session *)
(* document carries session_id, user_id, created_at, last_accessed,        *)
(* expires_at, is_active and the keys of data; ip_address and user_agent   *)
(* are present or absent; device_info is left out.                         *)
(***************************************************************************)
SessionIDs == 1..MaxSessions

MaxLifetime == 30 * 24          \* maxLifetime of pre('save'): 30 days
DefaultExpiresIn == 24          \* expires_in = 86400
DefaultExtend == 1              \* additionalSeconds = 3600
FortyDays == 40 * 24

\* pre('save') without the cap
SessionPreSaveNoCap(doc) == doc

\* SessionsSchema.pre('save')
SessionPreSave(doc) ==
    LET maxExpiry == doc.created_at + MaxLifetime
    IN  IF doc.expires_at > maxExpiry THEN [doc EXCEPT !.expires_at = maxExpiry] ELSE doc

\* document.save() of a session: the pre('save') hook, the required paths and
\* the unique index on session_id
SaveSession(docs, old, doc, sessionData) ==
    LET saved == SessionPreSave(doc)
        others == docs \ old
        ok == /\ Has(sessionData, "user_id")
              /\ Has(sessionData, "ip_address")
              /\ Has(sessionData, "user_agent")
              /\ \A d \in others : d.session_id # saved.session_id
    IN  [ok |-> ok, docs |-> IF ok THEN others \cup {saved} ELSE docs]

\* SessionsSchema.statics.createSession
createSession(docs, sessionData) ==
    LET expires_in == IF Has(sessionData, "expires_in") THEN sessionData.expires_in
                      ELSE DefaultExpiresIn
        doc == [session_id |-> sessionData.session_id,
                user_id |-> IF Has(sessionData, "user_id") THEN sessionData.user_id ELSE 0,
                data |-> {},
                created_at |-> now,
                last_accessed |-> now,
                expires_at |-> now + expires_in,
                is_active |-> TRUE]
    IN  SaveSession(docs, {}, doc, sessionData)

\* the stored fields a loaded session document satisfies the required paths with
Loaded == [user_id |-> 0, ip_address |-> 0, user_agent |-> 0]

\* SessionsSchema.methods.touch
touch(docs, session) ==
    SaveSession(docs, {session}, [session EXCEPT !.last_accessed = now], Loaded)

\* SessionsSchema.methods.destroy
destroy(docs, session) ==
    SaveSession(docs, {session}, [session EXCEPT !.is_active = FALSE], Loaded)

\* SessionsSchema.methods.extend
extend(docs, session, additionalSeconds) ==
    SaveSession(docs, {session},
                [session EXCEPT !.expires_at = now + additionalSeconds,
                                !.last_accessed = now],
                Loaded)

\* SessionsSchema.methods.updateData
updateData(docs, session, newData) ==
    SaveSession(docs, {session},
                [session EXCEPT !.data = session.data \cup newData,
                                !.last_accessed = now],
                Loaded)

\* the sessionData objects handed to createSession
SessionInputs ==
    { [session_id |-> sid, user_id |-> 1, ip_address |-> 0, user_agent |-> 0]
        : sid \in SessionIDs }
    \cup { [session_id |-> sid, user_id |-> 1, ip_address |-> 0, user_agent |-> 0,
            expires_in |-> FortyDays] : sid \in SessionIDs }
    \cup { [session_id |-> 1, user_id |-> 1, ip_address |-> 0] }

ExtendInputs == {DefaultExtend, MaxLifetime - 1, FortyDays}

CreateSession(sessionData) ==
    /\ LET r == createSession(sessions, sessionData)
       IN  /\ sessions' = r.docs
           /\ last' = [op |-> "createSession", ok |-> r.ok,
                       session_id |-> sessionData.session_id, data |-> sessionData]
    /\ UNCHANGED <<media, tally, title, slugOut, content, calls, settings, writes,
                   probe, verdict, users, now>>

Touch(session) ==
    /\ LET r == touch(sessions, session)
       IN  /\ sessions' = r.docs
           /\ last' = [op |-> "touch", ok |-> r.ok, session_id |-> session.session_id]
    /\ UNCHANGED <<media, tally, title, slugOut, content, calls, settings, writes,
                   probe, verdict, users, now>>

Destroy(session) ==
    /\ LET r == destroy(sessions, session)
       IN  /\ sessions' = r.docs
           /\ last' = [op |-> "destroy", ok |-> r.ok, session_id |-> session.session_id]
    /\ UNCHANGED <<media, tally, title, slugOut, content, calls, settings, writes,
                   probe, verdict, users, now>>

Extend(session, additionalSeconds) ==
    /\ LET r == extend(sessions, session, additionalSeconds)
       IN  /\ sessions' = r.docs
           /\ last' = [op |-> "extend", ok |-> r.ok, session_id |-> session.session_id,
                       additional |-> additionalSeconds, before |-> session.expires_at]
    /\ UNCHANGED <<media, tally, title, slugOut, content, calls, settings, writes,
                   probe, verdict, users, now>>

UpdateData(session, newData) ==
    /\ LET r == updateData(sessions, session, newData)
       IN  /\ sessions' = r.docs
           /\ last' = [op |-> "updateData", ok |-> r.ok,
                       session_id |-> session.session_id]
    /\ UNCHANGED <<media, tally, title, slugOut, content, calls, settings, writes,
                   probe, verdict, users, now>>

InitSessions ==
    /\ title = <<>>
    /\ slugOut = NotRun
    /\ content = {}
    /\ calls = <<>>
    /\ settings = {}
    /\ writes = 0
    /\ probe = <<>>
    /\ verdict = "notrun"
    /\ users = {}
    /\ sessions = {}
    /\ media = {}
    /\ tally = <<>>
    /\ now = 1
    /\ last = [op |-> "none"]

NextSessions ==
    \/ \E sessionData \in SessionInputs : CreateSession(sessionData)
    \/ \E session \in sessions : Touch(session)
    \/ \E session \in sessions : Destroy(session)
    \/ \E session \in sessions, additionalSeconds \in ExtendInputs :
          Extend(session, additionalSeconds)
    \/ \E session \in sessions : UpdateData(session, {"cart"})
    \/ Tick

SpecSessions == InitSessions /\ [][NextSessions]_vars

\* C14: every stored session expires at most 30 days after its creation; a
\* session created with expires_in of 40 days is stored with expires_at =
\* created_at + 30 days, and after extend() the session still expires within
\* the cap.
SessionLifetimeCapped ==
    /\ \A s \in sessions : s.expires_at <= s.created_at + MaxLifetime
    /\ ( /\ last.op = "createSession" /\ last.ok
         /\ Has(last.data, "expires_in") /\ last.data.expires_in = FortyDays )
       => \E s \in sessions :
             /\ s.session_id = last.session_id
             /\ s.expires_at = s.created_at + MaxLifetime

\* a session created earlier has just been extended by 40 days and expires
\* exactly 30 days after its creation
SessionExtendWitness ==
    /\ last.op = "extend" /\ last.ok
    /\ last.additional = FortyDays
    /\ \E s \in sessions :
          /\ s.session_id = last.session_id
          /\ s.created_at < now
          /\ now + last.additional > s.created_at + MaxLifetime
          /\ s.expires_at = s.created_at + MaxLifetime
          /\ last.before < s.expires_at

(***************************************************************************)
(* Publishing.  ContentModel with the status, the body and                 *)
(* timestamps.published_at in view: insert, update, publishContent,        *)
(* archiveContent and remove, one call at a time, while the clock runs.    *)
(***************************************************************************)
PubIDs == 1..MaxPubDocs         \* values crypto.randomBytes can produce
Body == <<"t","e","x","t">>
Hi == <<"H","i">>

\* ContentModel.publishContent
publishContent(docs, ID) ==
    update(docs, ID, [status |-> "published", published_at |-> now])

\* archiveContent that also clears the publication date
archiveContentUnpublish(docs, ID) ==
    update(docs, ID, [status |-> "archived", published_at |-> NullDate])

\* ContentModel.archiveContent
archiveContent(docs, ID) == update(docs, ID, [status |-> "archived"])

\* remove that deletes whatever document it finds first
removeAny(docs, ID) ==
    IF docs = {} THEN [ok |-> FALSE, docs |-> docs, error |-> "Document not found"]
    ELSE [ok |-> TRUE, docs |-> docs \ {CHOOSE d \in docs : TRUE}, error |-> ""]

\* BaseModel.remove: findOneAndDelete({ ID })
remove(docs, ID) ==
    LET found == { d \in docs : d.ID = ID }
    IN  IF found = {} THEN [ok |-> FALSE, docs |-> docs, error |-> "Document not found"]
        ELSE [ok |-> TRUE, docs |-> docs \ found, error |-> ""]

\* the data objects handed to insert and update
PublishInserts ==
    { [title |-> Hi],
      [title |-> Hi, content |-> Body],
      [title |-> Hi, content |-> Body, status |-> "published"],
      [title |-> Hi, status |-> "published"] }

PublishUpdates ==
    { [content |-> Body],
      [status |-> "draft"] }

PublishContent(ID) ==
    /\ \E r \in {publishContent(content, ID)} :
           /\ content' = r.docs
           /\ last' = [op |-> "publishContent", ok |-> r.ok, ID |-> ID,
                       error |-> r.error, set |-> r.set, pre |-> content, at |-> now]
    /\ UNCHANGED <<media, tally, title, slugOut, calls, settings, writes,
                   probe, verdict, users, sessions, now>>

ArchiveContent(ID) ==
    /\ \E r \in {archiveContent(content, ID)} :
           /\ content' = r.docs
           /\ last' = [op |-> "archiveContent", ok |-> r.ok, ID |-> ID,
                       error |-> r.error, set |-> r.set, pre |-> content]
    /\ UNCHANGED <<media, tally, title, slugOut, calls, settings, writes,
                   probe, verdict, users, sessions, now>>

Remove(ID) ==
    /\ \E r \in {remove(content, ID)} :
           /\ content' = r.docs
           /\ last' = [op |-> "remove", ok |-> r.ok, ID |-> ID,
                       error |-> r.error, pre |-> content]
    /\ UNCHANGED <<media, tally, title, slugOut, calls, settings, writes,
                   probe, verdict, users, sessions, now>>

InitPublish ==
    /\ title = <<>>
    /\ slugOut = NotRun
    /\ content = {}
    /\ calls = <<>>
    /\ settings = {}
    /\ writes = 0
    /\ probe = <<>>
    /\ verdict = "notrun"
    /\ users = {}
    /\ sessions = {}
    /\ media = {}
    /\ tally = <<>>
    /\ now = 1
    /\ last = [op |-> "none"]

NextPublish ==
    \/ \E id \in PubIDs, data \in PublishInserts : Insert(id, data)
    \/ \E id \in PubIDs, data \in PublishUpdates : Update(id, data)
    \/ \E id \in PubIDs : PublishContent(id)
    \/ \E id \in PubIDs : ArchiveContent(id)
    \/ Tick

SpecPublish == InitPublish /\ [][NextPublish]_vars

(***************************************************************************)
(* The same calls and BaseModel.remove over a collection of several        *)
(* documents, at one instant.                                              *)
(***************************************************************************)
FrameIDs == 1..MaxFrameDocs     \* values crypto.randomBytes can produce
MissingID == MaxFrameDocs + 1   \* an ID no document ever has

FrameInserts ==
    { [title |-> Hi],
      [title |-> Hi, content |-> Body, status |-> "published"] }

FrameUpdates ==
    { [content |-> Body],
      [status |-> "unknown"] }

NextFrame ==
    \/ \E id \in FrameIDs, data \in FrameInserts : Insert(id, data)
    \/ \E id \in FrameIDs \cup {MissingID}, data \in FrameUpdates : Update(id, data)
    \/ \E id \in FrameIDs \cup {MissingID} : ArchiveContent(id)
    \/ \E id \in FrameIDs \cup {MissingID} : Remove(id)

SpecFrame == InitPublish /\ [][NextFrame]_vars

\* C15: every published document has a non-empty body, and publishContent
\* on a document without a body fails and leaves the collection as it was.
PublishedHasBody ==
    /\ \A d \in content : d.status = "published" => d.content # <<>>
    /\ ( /\ last.op = "publishContent"
         /\ \E d \in last.pre : d.ID = last.ID /\ d.content = <<>> )
       => ~last.ok /\ content = last.pre

\* C16: a successful publishContent leaves the document published, with
\* published_at set to the instant of the call if it was unset and left as
\* it was otherwise.
PublishStampsOnce ==
    (last.op = "publishContent" /\ last.ok) =>
        \E old \in last.pre, new \in content :
            /\ old.ID = last.ID /\ new.ID = last.ID
            /\ new.status = "published"
            /\ new.published_at = IF old.published_at = NullDate THEN last.at
                                  ELSE old.published_at

\* C17: archiveContent on an existing document succeeds, and the collection
\* afterwards differs from the one before only in that document's status,
\* which is archived.
ArchiveOnlySetsStatus ==
    (last.op = "archiveContent" /\ \E d \in last.pre : d.ID = last.ID) =>
        /\ last.ok
        /\ \E old \in last.pre :
              /\ old.ID = last.ID
              /\ content = (last.pre \ {old}) \cup {[old EXCEPT !.status = "archived"]}

\* a published document with a body and a publication date has just been
\* archived next to a draft
ArchiveWitness ==
    /\ last.op = "archiveContent" /\ last.ok
    /\ Cardinality(content) = 2
    /\ \E old \in last.pre, d \in content :
          /\ old.ID = last.ID /\ d.ID = last.ID
          /\ old.status = "published"
          /\ d.status = "archived"
          /\ d.content = Body
          /\ d.published_at # NullDate
    /\ \E e \in content : e.ID # last.ID /\ e.status = "draft"

\* one call of update, archiveContent or remove, from the collection before
\* it (content) to the collection after it (content')
UpdateRemoveStep ==
    /\ last'.op = "remove" =>
          LET found == { d \in content : d.ID = last'.ID }
          IN  /\ found = {} =>
                    ~last'.ok /\ last'.error = "Document not found" /\ content' = content
              /\ found # {} =>
                    last'.ok /\ Cardinality(found) = 1 /\ content' = content \ found
    /\ last'.op \in {"update", "archiveContent"} =>
          LET found == { d \in content : d.ID = last'.ID }
          IN  /\ (found = {} /\ UpdateValid(last'.set)) =>
                    ~last'.ok /\ last'.error = "Document not found"
              /\ ~last'.ok => content' = content
              /\ last'.ok =>
                    \E old \in found, new \in content' :
                        /\ new.ID = last'.ID
                        /\ content' \ {new} = content \ {old}
                        /\ \A f \in DOMAIN old :
                              /\ f \notin DOMAIN last'.set => new[f] = old[f]
                              /\ f \in DOMAIN last'.set \ {"slug"} => new[f] = last'.set[f]

PageDoc(i) ==
    [ID |-> i, title |-> Hi,
     slug |-> IF i = 1 THEN <<"h","i">> ELSE Suffixed(<<"h","i">>, i - 1),
     status |-> IF i % 2 = 0 THEN "published" ELSE "draft",
     content |-> Body,
     created_at |-> 1,
     published_at |-> IF i % 2 = 0 THEN 1 ELSE NullDate,
     view_count |-> 0,
     last_viewed |-> NullDate]

PageCollections == { { PageDoc(i) : i \in 1..k } : k \in 0..MaxPageDocs }

PageQueries == { [status |-> "published"], [title |-> Hi] }

\* find(query): the documents whose fields equal those of the query
Matches(docs, query) == { d \in docs : \A f \in DOMAIN query : d[f] = query[f] }

\* .sort({ ID: 1 })
RECURSIVE SortByID(_)
SortByID(docs) ==
    IF docs = {} THEN <<>>
    ELSE LET first == CHOOSE d \in docs : \A e \in docs : d.ID <= e.ID
         IN  <<first>> \o SortByID(docs \ {first})

\* BaseModel.getlist: find, sort, then skip and limit where they are truthy
getlist(docs, query, limit, skip) ==
    LET sorted == SortByID(Matches(docs, query))
        skipped == IF skip # 0 THEN SubSeq(sorted, skip + 1, Len(sorted)) ELSE sorted
    IN  IF limit # 0 /\ limit < Len(skipped) THEN SubSeq(skipped, 1, limit) ELSE skipped

\* BaseModel.count
count(docs, query) == Cardinality(Matches(docs, query))

\* Math.ceil(a / b) for a >= 0, b >= 1
Ceil(a, b) == IF a % b = 0 THEN a \div b ELSE (a \div b) + 1

\* paginate that skips page * limit documents
paginateSkipPage(docs, query, page, limit) ==
    LET skip == page * limit
        total == count(docs, query)
    IN  [documents |-> getlist(docs, query, limit, skip),
         pagination |-> [current_page |-> page,
                         total_pages |-> Ceil(total, limit),
                         total_documents |-> total,
                         per_page |-> limit,
                         has_next_page |-> page < Ceil(total, limit),
                         has_prev_page |-> page > 1]]

\* BaseModel.paginate
paginate(docs, query, page, limit) ==
    LET skip == (page - 1) * limit
        total == count(docs, query)
    IN  [documents |-> getlist(docs, query, limit, skip),
         pagination |-> [current_page |-> page,
                         total_pages |-> Ceil(total, limit),
                         total_documents |-> total,
                         per_page |-> limit,
                         has_next_page |-> page < Ceil(total, limit),
                         has_prev_page |-> page > 1]]

Paginate(query, page, limit) ==
    /\ last' = [op |-> "paginate", query |-> query, page |-> page, limit |-> limit,
                result |-> paginate(content, query, page, limit)]
    /\ UNCHANGED <<media, tally, title, slugOut, content, calls, settings, writes,
                   probe, verdict, users, sessions, now>>

InitPaginate ==
    /\ title = <<>>
    /\ slugOut = NotRun
    /\ content \in PageCollections
    /\ calls = <<>>
    /\ settings = {}
    /\ writes = 0
    /\ probe = <<>>
    /\ verdict = "notrun"
    /\ users = {}
    /\ sessions = {}
    /\ media = {}
    /\ tally = <<>>
    /\ now = 1
    /\ last = [op |-> "none"]

NextPaginate ==
    \E query \in PageQueries, page \in 1..MaxPage, limit \in 1..MaxLimit :
        Paginate(query, page, limit)

SpecPaginate == InitPaginate /\ [][NextPaginate]_vars

\* C20: for page >= 1 and limit >= 1, paginate reports the number of
\* matches, the least number of pages of that size that hold them, whether a
\* page follows and whether one precedes, the page and the limit as given,
\* and as documents the matches at positions (page-1)*limit .. page*limit-1
\* of the sorted result that exist: at most limit, none past the last page.
PaginateMetadata ==
    last.op = "paginate" =>
        LET sorted == SortByID(Matches(content, last.query))
            meta == last.result.pagination
            documents == last.result.documents
            first == (last.page - 1) * last.limit
        IN  /\ meta.total_documents = Cardinality(Matches(content, last.query))
            /\ meta.total_pages * last.limit >= meta.total_documents
            /\ (meta.total_pages - 1) * last.limit < meta.total_documents
                  \/ (meta.total_pages = 0 /\ meta.total_documents = 0)
            /\ meta.has_next_page <=> last.page < meta.total_pages
            /\ meta.has_prev_page <=> last.page > 1
            /\ meta.current_page = last.page
            /\ meta.per_page = last.limit
            /\ Len(documents) <= last.limit
            /\ Len(documents) = Cardinality({ i \in 1..Len(sorted) :
                                               i > first /\ i <= first + last.limit })
            /\ \A i \in 1..Len(documents) : documents[i] = sorted[first + i]
            /\ last.page > meta.total_pages => documents = <<>>

\* the third and last page of five matches by two: one document, a page
\* before it and none after
PaginateWitness ==
    /\ last.op = "paginate"
    /\ last.page = 3 /\ last.limit = 2
    /\ last.result.pagination.total_documents = 5
    /\ last.result.pagination.total_pages = 3
    /\ Len(last.result.documents) = 1
    /\ last.result.pagination.has_prev_page
    /\ ~last.result.pagination.has_next_page

(***************************************************************************)
(* Round trip.  BaseModel.insert on the content collection, then           *)
(* BaseModel.findById, with BaseModel.remove in between and the clock      *)
(* running.  The slugs handed in are lower-case or carry a capital.        *)
(***************************************************************************)
RoundIDs == 1..MaxRoundDocs     \* values crypto.randomBytes can produce
NoDoc == [ID |-> NullID]        \* null
HiSlug == <<"h","i">>
HiSlugCaps == <<"H","i">>

\* the fields of the content schema declared required, of those in view
RequiredFields == {"ID", "title", "slug", "status"}

\* BaseModel.findById: findOne({ ID })
findById(docs, ID) ==
    IF \E d \in docs : d.ID = ID THEN CHOOSE d \in docs : d.ID = ID ELSE NoDoc

RoundInserts ==
    { [title |-> Hi, slug |-> HiSlug],
      [title |-> Hi, slug |-> HiSlugCaps],
      [title |-> Hi, slug |-> Suffixed(HiSlug, 1), status |-> "published",
       content |-> Body],
      [slug |-> HiSlug] }

\* BaseModel.insert, the random ID being id
BaseModelInsert(id, data) ==
    /\ Cardinality(content) < MaxRoundDocs
    /\ \E r \in {BaseInsert(content, id, data)} :
           /\ content' = r.docs
           /\ last' = [op |-> "baseInsert", ok |-> r.ok,
                       ID |-> IF r.ok THEN id ELSE NullID, data |-> data]
    /\ UNCHANGED <<media, tally, title, slugOut, calls, settings, writes,
                   probe, verdict, users, sessions, now>>

FindById(ID) ==
    /\ last' = [op |-> "findById", ID |-> ID, result |-> findById(content, ID)]
    /\ UNCHANGED <<media, tally, title, slugOut, content, calls, settings, writes,
                   probe, verdict, users, sessions, now>>

NextRound ==
    \/ \E id \in RoundIDs, data \in RoundInserts : BaseModelInsert(id, data)
    \/ \E id \in RoundIDs : FindById(id)
    \/ \E id \in RoundIDs : Remove(id)
    \/ Tick

SpecRound == InitPublish /\ [][NextRound]_vars

\* C21: after a successful insert, findById with the ID of the new document
\* returns a document with that ID, a creation date, and the values the
\* input gave for the required fields; no two documents share an ID, and
\* findById returns null or a stored document with the ID asked for.
RoundTripEqualsInput ==
    /\ \A d, e \in content : d.ID = e.ID => d = e
    /\ last.op = "findById" =>
          \/ last.result = NoDoc /\ \A d \in content : d.ID # last.ID
          \/ last.result \in content /\ last.result.ID = last.ID
    /\ (last.op = "baseInsert" /\ last.ok) =>
          LET found == findById(content, last.ID)
          IN  /\ found # NoDoc
              /\ found.ID = last.ID /\ found.ID # NullID
              /\ found.created_at # NullDate
              /\ \A f \in RequiredFields \cap DOMAIN last.data :
                    found[f] = last.data[f]

(***************************************************************************)
(* Media.  Documents of the media collection with their processing         *)
(* subdocument (status, thumbnails, error_message, processed_at) and the   *)
(* view counter of stats.  Every document is created with a processing     *)
(* subdocument; the instance methods run on a document just loaded.        *)
(***************************************************************************)
MediaIDs == 1..MaxMedia         \* values crypto.randomBytes can produce

\* status: { enum: ['pending', 'processing', 'completed', 'failed'], default: 'pending' }
ProcessingStatuses == {"pending", "processing", "completed", "failed"}

\* size: { enum: ['small', 'medium', 'large', 'xlarge'], required }, url: { required }
ThumbnailSizes == {"small", "medium", "large", "xlarge"}
ThumbnailsOK(thumbnails) ==
    \A i \in 1..Len(thumbnails) :
        thumbnails[i].size \in ThumbnailSizes /\ thumbnails[i].url # ""

\* the virtual isImage: mime_type.startsWith('image/')
ImageMimeTypes == {"image/png", "image/jpeg"}
isImage(m) == m.mime_type \in ImageMimeTypes

\* save() of a media document: schema validation against the unique index
MediaValid(m) ==
    /\ m.status \in ProcessingStatuses
    /\ ThumbnailsOK(m.thumbnails)

\* new Media(data).save(): the defaults of the schema and pre('save')
InsertMediaDoc(docs, id, data) ==
    LET defaulted == IF Has(data, "status") THEN data.status ELSE "pending"
        doc == [ID |-> id,
                mime_type |-> data.mime_type,
                status |-> IF isImage(data) /\ defaulted = "" THEN "pending"
                           ELSE defaulted,
                thumbnails |-> <<>>,
                error_message |-> "",
                processed_at |-> NullDate,
                view_count |-> 0]
        ok == MediaValid(doc) /\ \A d \in docs : d.ID # id
    IN  [ok |-> ok, docs |-> IF ok THEN docs \cup {doc} ELSE docs]

\* an instance method: the document with that ID modified and saved
SaveMedia(docs, old, new) ==
    IF MediaValid(new) THEN [ok |-> TRUE, docs |-> (docs \ {old}) \cup {new}]
    ELSE [ok |-> FALSE, docs |-> docs]

\* MediaSchema.methods.markProcessingComplete
markProcessingComplete(docs, m, thumbnails) ==
    SaveMedia(docs, m, [m EXCEPT !.status = "completed",
                                 !.thumbnails = thumbnails,
                                 !.processed_at = now])

\* MediaSchema.methods.markProcessingFailed
markProcessingFailed(docs, m, errorMessage) ==
    SaveMedia(docs, m, [m EXCEPT !.status = "failed",
                                 !.error_message = errorMessage,
                                 !.processed_at = now])

\* MediaSchema.methods.incrementViews
incrementMediaViews(docs, m) ==
    SaveMedia(docs, m, [m EXCEPT !.view_count = m.view_count + 1])

MediaInputs ==
    { [mime_type |-> "image/png"],
      [mime_type |-> "image/png", status |-> "processing"],
      [mime_type |-> "text/plain"],
      [mime_type |-> "image/jpeg", status |-> "queued"] }

ThumbnailInputs ==
    { <<>>,
      <<[size |-> "small", url |-> "/t/s.png"]>>,
      <<[size |-> "huge", url |-> "/t/h.png"]>> }

InsertMedia(id, data) ==
    /\ Cardinality(media) < MaxMedia
    /\ \E r \in {InsertMediaDoc(media, id, data)} :
           /\ media' = r.docs
           /\ last' = [op |-> "insertMedia", ok |-> r.ok, ID |-> id, data |-> data]
    /\ UNCHANGED <<tally, title, slugOut, content, calls, settings, writes,
                   probe, verdict, users, sessions, now>>

MarkProcessingComplete(m, thumbnails) ==
    /\ m \in media
    /\ \E r \in {markProcessingComplete(media, m, thumbnails)} :
           /\ media' = r.docs
           /\ last' = [op |-> "markProcessingComplete", ok |-> r.ok, ID |-> m.ID,
                       before |-> m.status]
    /\ UNCHANGED <<tally, title, slugOut, content, calls, settings, writes,
                   probe, verdict, users, sessions, now>>

MarkProcessingFailed(m, errorMessage) ==
    /\ m \in media
    /\ \E r \in {markProcessingFailed(media, m, errorMessage)} :
           /\ media' = r.docs
           /\ last' = [op |-> "markProcessingFailed", ok |-> r.ok, ID |-> m.ID,
                       before |-> m.status]
    /\ UNCHANGED <<tally, title, slugOut, content, calls, settings, writes,
                   probe, verdict, users, sessions, now>>

IncrementMediaViews(m) ==
    /\ m \in media
    /\ m.view_count < MaxViews
    /\ \E r \in {incrementMediaViews(media, m)} :
           /\ media' = r.docs
           /\ last' = [op |-> "incrementViews", ok |-> r.ok, ID |-> m.ID,
                       before |-> m.status]
    /\ UNCHANGED <<tally, title, slugOut, content, calls, settings, writes,
                   probe, verdict, users, sessions, now>>

NextMedia ==
    \/ \E id \in MediaIDs, data \in MediaInputs : InsertMedia(id, data)
    \/ \E m \in media, thumbnails \in ThumbnailInputs : MarkProcessingComplete(m, thumbnails)
    \/ \E m \in media : MarkProcessingFailed(m, "timeout")
    \/ \E m \in media : IncrementMediaViews(m)
    \/ Tick

SpecMedia == InitPublish /\ [][NextMedia]_vars

\* the rank of a status in pending -> processing -> completed | failed
StatusRank(status) ==
    IF status = "pending" THEN 0 ELSE IF status = "processing" THEN 1 ELSE 2

\* C22: in every step, a media document whose processing status is
\* completed or failed keeps that status, and no document's status moves to
\* an earlier one of pending, processing, completed | failed.
ProcessingStateMachine ==
    [][\A m \in media : \A n \in media' :
          n.ID = m.ID =>
              /\ m.status \in {"completed", "failed"} => n.status = m.status
              /\ StatusRank(n.status) >= StatusRank(m.status)]_vars

(***************************************************************************)
(* ContentModel.update and the slug, one call at a time.                   *)
(***************************************************************************)
\* the slug stored for the document with that ID
StoredSlug(docs, ID) == (CHOOSE d \in docs : d.ID = ID).slug

\* one update call that names a slug S for an existing document, from the
\* collection before it (content) to the collection after it (content')
UpdateSlugStep ==
    ( /\ last'.op = "update"
      /\ Truthy(last'.data, "slug")
      /\ \E d \in content : d.ID = last'.ID )
    => LET S == last'.data.slug
           used == UsedSlugs({ d \in content : d.ID # last'.ID })
           stored == StoredSlug(content', last'.ID)
       IN  /\ last'.ok
           /\ S \notin used => stored = S
           /\ S \in used =>
                 \E N \in 1..Cardinality(content) :
                     /\ stored = Suffixed(S, N)
                     /\ stored \notin used
                     /\ \A k \in 1..(N - 1) : Suffixed(S, k) \in used

\* C24: update(ID, {slug: S}) on an existing document stores S itself when
\* no other document has it (the document's own slug included), and
\* otherwise S-N for the least N >= 1 such that no other document has S-N.
UpdateSlugExcludesSelf == [][UpdateSlugStep]_vars

\* a document has just been given its own slug again and kept it, next to
\* another document
UpdateOwnSlugWitness ==
    /\ last.op = "update" /\ last.ok
    /\ Truthy(last.data, "slug")
    /\ last.unique = last.data.slug
    /\ Cardinality(content) >= 2
    /\ \E d \in content : d.ID = last.ID /\ d.slug = last.data.slug
    /\ \E e \in content : e.ID # last.ID /\ e.slug = Suffixed(last.data.slug, 1)

(***************************************************************************)
(* ContentModel.incrementViews with the event loop in view: a call gives   *)
(* up control at its findById and at its update, and the calls of other    *)
(* callers run in between.  tally counts, per content ID, the calls that   *)
(* have completed and notes whether one of them wrote from a count that    *)
(* another call had meanwhile replaced.  The clock stands still.           *)
(***************************************************************************)
ViewIDs == 1..MaxViewDocs       \* values crypto.randomBytes can produce

NoViews == [done |-> 0, lost |-> FALSE]

\* the updateData of incrementViews that leaves the count as read
viewsUpdateDataAsRead(doc) ==
    [view_count |-> doc.view_count, last_viewed |-> now]

\* the updateData of incrementViews, from the document findById returned
viewsUpdateData(doc) ==
    [view_count |-> doc.view_count + 1, last_viewed |-> now]

InFlightViews(id) ==
    { c \in Callers : calls[c].pc = "write" /\ calls[c].ID = id }

\* incrementViews up to its second await: findById, then updateData
BeginIncrementViews(c, id) ==
    /\ calls[c].pc = "idle"
    /\ tally[id].done + Cardinality(InFlightViews(id)) < MaxViews
    /\ \E found \in {findById(content, id)} :
           IF found = NoDoc
           THEN /\ last' = [op |-> "incrementViews", ok |-> FALSE, ID |-> id,
                            error |-> "Content not found"]
                /\ UNCHANGED calls
           ELSE /\ calls' = [calls EXCEPT ![c] =
                                [pc |-> "write", op |-> "incrementViews", ID |-> id,
                                 data |-> viewsUpdateData(found), stale |-> FALSE]]
                /\ UNCHANGED last
    /\ UNCHANGED <<media, tally, title, slugOut, content, settings, writes,
                   probe, verdict, users, sessions, now>>

\* await this.update(ID, updateData)
FinishIncrementViews(c) ==
    /\ calls[c].pc = "write"
    /\ \E k \in {calls[c]} :
       \E r \in {update(content, k.ID, k.data)} :
           /\ content' = r.docs
           /\ calls' = [d \in Callers |->
                           IF d = c THEN Idle
                           ELSE IF r.ok /\ calls[d].pc = "write" /\ calls[d].ID = k.ID
                           THEN [calls[d] EXCEPT !.stale = TRUE]
                           ELSE calls[d]]
           /\ tally' = IF r.ok
                       THEN [tally EXCEPT ![k.ID] =
                                [done |-> @.done + 1, lost |-> @.lost \/ k.stale]]
                       ELSE tally
           /\ last' = [op |-> "incrementViews", ok |-> r.ok, ID |-> k.ID,
                       error |-> r.error]
    /\ UNCHANGED <<media, title, slugOut, settings, writes,
                   probe, verdict, users, sessions, now>>

\* ContentModel.insert of a document to view
InsertViewed(id) ==
    /\ Insert(id, [title |-> Hi])
    /\ UNCHANGED calls

InitViews ==
    /\ title = <<>>
    /\ slugOut = NotRun
    /\ content = {}
    /\ calls = [c \in Callers |-> Idle]
    /\ settings = {}
    /\ writes = 0
    /\ probe = <<>>
    /\ verdict = "notrun"
    /\ users = {}
    /\ sessions = {}
    /\ media = {}
    /\ tally = [id \in ViewIDs |-> NoViews]
    /\ now = 1
    /\ last = [op |-> "none"]

NextViews ==
    \/ \E id \in ViewIDs : InsertViewed(id)
    \/ \E c \in Callers, id \in ViewIDs : BeginIncrementViews(c, id)
    \/ \E c \in Callers : FinishIncrementViews(c)

SpecViews == InitViews /\ [][NextViews]_vars

\* C25: a document's view_count never exceeds the number of incrementViews
\* calls completed on it, and equals that number as long as no call wrote
\* after another call had written between its read and its write.
ViewsCountedUnlessInterleaved ==
    \A d \in content :
        /\ d.ID \in ViewIDs
        /\ d.view_count <= tally[d.ID].done
        /\ ~tally[d.ID].lost => d.view_count = tally[d.ID].done

\* two calls on one document have completed, both having read the count
\* before either wrote, and the count is 1
LostViewWitness ==
    \E d \in content :
        /\ tally[d.ID].done = 2
        /\ tally[d.ID].lost
        /\ d.view_count = 1
        /\ \A c \in Callers : calls[c].pc = "idle"

\* two calls on one document have completed one after the other, and the
\* count is 2
SequentialViewsWitness ==
    \E d \in content :
        /\ tally[d.ID].done = 2
        /\ ~tally[d.ID].lost
        /\ d.view_count = 2

(***************************************************************************)
(* UserModel.insert with the event loop in view: a call gives up control   *)
(* at its findOne and at its super.insert, and the calls of other callers  *)
(* run in between.                                                         *)
(***************************************************************************)
RaceUserInputs ==
    { [username |-> Alice, email |-> AliceMail, password_hash |-> "h", salt |-> "s"],
      [username |-> Alice, email |-> BobMail, password_hash |-> "h", salt |-> "s"],
      [username |-> Bob, email |-> AliceMail, password_hash |-> "h", salt |-> "s"],
      [username |-> Bob, email |-> BobMail, password_hash |-> "h"],
      [email |-> BobMail, password_hash |-> "h", salt |-> "s"] }

InFlightUserInserts == { c \in Callers : calls[c].pc = "save" }

\* the stored users that have the username or the email of data
Rivals(docs, data) ==
    { u \in docs : u.username = data.username \/ u.email = toLowerCase(data.email) }

\* insert up to its second await: defaults, required fields, findOne and the
\* two comparisons
BeginInsertUser(c, data) ==
    /\ calls[c].pc = "idle"
    /\ Cardinality(users) + Cardinality(InFlightUserInserts) < MaxUsers
    /\ IF ~(Truthy(data, "username") /\ Truthy(data, "email") /\ Has(data, "password_hash"))
       THEN /\ last' = [op |-> "insertUser", ok |-> FALSE, stored |-> FALSE,
                        error |-> "Username, email, and password are required",
                        data |-> data, pre |-> users]
            /\ UNCHANGED calls
       ELSE \E existingUser \in FindUserByNameOrEmail(users, data.username, data.email) :
               IF existingUser # NoUser /\ existingUser.username = data.username
               THEN /\ last' = [op |-> "insertUser", ok |-> FALSE, stored |-> FALSE,
                                error |-> "Username already exists",
                                data |-> data, pre |-> users]
                    /\ UNCHANGED calls
               ELSE IF existingUser # NoUser /\ existingUser.email = data.email
               THEN /\ last' = [op |-> "insertUser", ok |-> FALSE, stored |-> FALSE,
                                error |-> "Email already exists",
                                data |-> data, pre |-> users]
                    /\ UNCHANGED calls
               ELSE /\ calls' = [calls EXCEPT ![c] =
                                    [pc |-> "save", op |-> "insertUser",
                                     data |-> UserDefaults(data)]]
                    /\ UNCHANGED last
    /\ UNCHANGED <<media, tally, title, slugOut, content, settings, writes,
                   probe, verdict, users, sessions, now>>

\* await super.insert(userData), the random ID being id
SaveUser(c, id) ==
    /\ calls[c].pc = "save"
    /\ \E r \in {BaseInsertUser(users, id, calls[c].data)} :
           /\ users' = r.docs
           /\ last' = [op |-> "insertUser", ok |-> r.ok, stored |-> TRUE,
                       error |-> IF r.ok THEN "" ELSE "Insert failed",
                       data |-> calls[c].data, pre |-> users]
    /\ calls' = [calls EXCEPT ![c] = Idle]
    /\ UNCHANGED <<media, tally, title, slugOut, content, settings, writes,
                   probe, verdict, sessions, now>>

InitUserRace ==
    /\ title = <<>>
    /\ slugOut = NotRun
    /\ content = {}
    /\ calls = [c \in Callers |-> Idle]
    /\ settings = {}
    /\ writes = 0
    /\ probe = <<>>
    /\ verdict = "notrun"
    /\ users = {}
    /\ sessions = {}
    /\ media = {}
    /\ tally = <<>>
    /\ now = 1
    /\ last = [op |-> "none"]

NextUserRace ==
    \/ \E c \in Callers, data \in RaceUserInputs : BeginInsertUser(c, data)
    \/ \E c \in Callers, id \in UserIDs : SaveUser(c, id)

SpecUserRace == InitUserRace /\ [][NextUserRace]_vars

\* C26: an insert that reports 'Username already exists' or 'Email already
\* exists' found such a user in its own check; an insert that reaches the
\* store when its username or email is by then taken is refused there, by
\* the unique indexes, and leaves the collection as it was; no two stored
\* users share a username or an email.
UserInsertCheckThenStore ==
    /\ \A u, v \in users : (u.username = v.username \/ u.email = v.email) => u = v
    /\ (last.op = "insertUser" /\ last.stored /\ Rivals(last.pre, last.data) # {})
       => ~last.ok /\ last.error = "Insert failed" /\ users = last.pre
    /\ (last.op = "insertUser"
        /\ last.error \in {"Username already exists", "Email already exists"})
       => ~last.stored /\ Rivals(last.pre, last.data) # {} /\ users = last.pre

\* an insert that had passed its duplicate check has just reached the store
\* with an email that another insert stored in the meantime
UserRaceWitness ==
    /\ last.op = "insertUser" /\ last.stored /\ ~last.ok
    /\ \E u \in users : u.email = toLowerCase(last.data.email)
                        /\ u.username # last.data.username
    /\ Cardinality(users) = 1

(***************************************************************************)
(* UserModel.recordFailedLogin and resetFailedLogins with the event loop   *)
(* in view: recordFailedLogin gives up control at its findOne and at its   *)
(* findOneAndUpdate; the $inc of the latter is applied by the store to the *)
(* value it holds at that moment.                                          *)
(***************************************************************************)
LoginUserInputs ==
    { [username |-> Alice, email |-> AliceMailCaps, password_hash |-> "h", salt |-> "s"],
      [username |-> Bob, email |-> BobMail, password_hash |-> "h", salt |-> "s"] }

\* the identifiers handed to recordFailedLogin
LoginIdentifiers == {AliceMailCaps, Bob}

NoLogins == [done |-> 0, raced |-> FALSE]

\* findOne({ $or: [{ username: identifier }, { email: identifier.toLowerCase() }] })
FindUserByIdentifier(docs, identifier) ==
    LET matches == { u \in docs : u.username = identifier
                                  \/ u.email = toLowerCase(identifier) }
    IN  IF matches = {} THEN {NoUser} ELSE matches

\* the counter written by an increment computed from the value the call read
failedLoginIncAsRead(stored, read) == read + 1

\* { $inc: { 'activity.failed_login_attempts': 1 } }
failedLoginInc(stored, read) == stored + 1

InFlightLogins(id) ==
    { c \in Callers : calls[c].pc = "inc" /\ calls[c].ID = id }

\* UserModel.insert, run from its call to its return
InsertLoginUser(id, data) ==
    /\ \E r \in UserInsert(users, id, data) :
          /\ users' = r.docs
          /\ last' = [op |-> "insertUser", ok |-> r.ok]
    /\ UNCHANGED <<media, tally, title, slugOut, content, calls, settings, writes,
                   probe, verdict, sessions, now>>

\* recordFailedLogin up to its second await
BeginRecordFailedLogin(c, identifier) ==
    /\ calls[c].pc = "idle"
    /\ \E user \in FindUserByIdentifier(users, identifier) :
          IF user = NoUser
          THEN /\ last' = [op |-> "recordFailedLogin", ok |-> TRUE,
                           identifier |-> identifier, ID |-> NullID, pre |-> users]
               /\ UNCHANGED calls
          ELSE /\ tally[user.ID].done + Cardinality(InFlightLogins(user.ID)) < MaxLogins
               /\ calls' = [calls EXCEPT ![c] =
                               [pc |-> "inc", op |-> "recordFailedLogin",
                                identifier |-> identifier, ID |-> user.ID,
                                read |-> user.failed_login_attempts, stale |-> FALSE]]
               /\ UNCHANGED last
    /\ UNCHANGED <<media, tally, title, slugOut, content, settings, writes,
                   probe, verdict, users, sessions, now>>

\* await this.model.findOneAndUpdate({ ID: user.ID }, updateData)
FinishRecordFailedLogin(c) ==
    /\ calls[c].pc = "inc"
    /\ \E u \in { d \in users : d.ID = calls[c].ID } :
          /\ users' = (users \ {u}) \cup
                      { [u EXCEPT !.failed_login_attempts =
                                      failedLoginInc(@, calls[c].read),
                                  !.last_failed_login = now] }
          /\ tally' = [tally EXCEPT ![u.ID] =
                          [done |-> @.done + 1, raced |-> @.raced \/ calls[c].stale]]
          /\ last' = [op |-> "recordFailedLogin", ok |-> TRUE,
                      identifier |-> calls[c].identifier, ID |-> u.ID]
          /\ calls' = [d \in Callers |->
                          IF d = c THEN Idle
                          ELSE IF calls[d].pc = "inc" /\ calls[d].ID = u.ID
                          THEN [calls[d] EXCEPT !.stale = TRUE]
                          ELSE calls[d]]
    /\ UNCHANGED <<media, title, slugOut, content, settings, writes,
                   probe, verdict, sessions, now>>

\* UserModel.resetFailedLogins
resetFailedLogins(docs, userId) ==
    BaseUpdateUser(docs, userId,
                   [failed_login_attempts |-> 0, last_failed_login |-> NullDate])

ResetFailedLogins(userId) ==
    /\ \E r \in {resetFailedLogins(users, userId)} :
          /\ users' = r.docs
          /\ last' = [op |-> "resetFailedLogins", ok |-> r.ok, ID |-> userId,
                      was |-> { u.failed_login_attempts : u \in
                                    { d \in users : d.ID = userId } }]
          /\ tally' = IF r.ok THEN [tally EXCEPT ![userId] = NoLogins] ELSE tally
    /\ UNCHANGED <<media, title, slugOut, content, calls, settings, writes,
                   probe, verdict, sessions, now>>

InitLogins ==
    /\ title = <<>>
    /\ slugOut = NotRun
    /\ content = {}
    /\ calls = [c \in Callers |-> Idle]
    /\ settings = {}
    /\ writes = 0
    /\ probe = <<>>
    /\ verdict = "notrun"
    /\ users = {}
    /\ sessions = {}
    /\ media = {}
    /\ tally = [id \in UserIDs |-> NoLogins]
    /\ now = 1
    /\ last = [op |-> "none"]

NextLogins ==
    \/ \E id \in UserIDs, data \in LoginUserInputs : InsertLoginUser(id, data)
    \/ \E c \in Callers, identifier \in LoginIdentifiers :
          BeginRecordFailedLogin(c, identifier)
    \/ \E c \in Callers : FinishRecordFailedLogin(c)
    \/ \E id \in UserIDs : ResetFailedLogins(id)

SpecLogins == InitLogins /\ [][NextLogins]_vars

\* C27: the failed-login counter of every user equals the number of
\* recordFailedLogin calls completed for that user since the user was created
\* or last reset, however the calls were interleaved; a recordFailedLogin
\* whose identifier is no user's username and, lowercased, no user's email
\* leaves the users as they were and completes without an error; after a
\* successful resetFailedLogins the user's counter is 0.
FailedLoginsCounted ==
    /\ \A u \in users : u.failed_login_attempts = tally[u.ID].done
    /\ (last.op = "recordFailedLogin"
        /\ \A u \in users : u.username # last.identifier
                            /\ u.email # toLowerCase(last.identifier))
       => last.ok /\ last.ID = NullID /\ users = last.pre
    /\ (last.op = "resetFailedLogins" /\ last.ok)
       => \A u \in users : u.ID = last.ID => u.failed_login_attempts = 0

\* two calls read the same user before either incremented, both have
\* completed, and the counter stands at 2
InterleavedLoginsWitness ==
    \E u \in users : tally[u.ID].raced /\ u.failed_login_attempts = 2

\* a call with an identifier that matches no user has completed
UnknownIdentifierWitness ==
    /\ last.op = "recordFailedLogin" /\ last.ID = NullID /\ users # {}

\* a reset has brought a counter that stood above 0 back to 0
ResetLoginsWitness ==
    /\ last.op = "resetFailedLogins" /\ last.ok
    /\ \E n \in last.was : n > 0

(***************************************************************************)
(* ensureUniqueSlug one findOne at a time, with no other call between its  *)
(* probes: the collection is filled first and stands still while the loop  *)
(* runs.                                                                   *)
(***************************************************************************)
ProbeIDs == 1..MaxProbeDocs     \* values crypto.randomBytes can produce

\* the slugs of the stored documents: the base, its suffixed forms, another
ProbeDocSlugs ==
    {HiSlug, ABSlug} \cup { Suffixed(HiSlug, k) : k \in 1..MaxProbeDocs }

\* the base slugs handed to ensureUniqueSlug
ProbeBases == {HiSlug, Suffixed(HiSlug, 1)}

NoProbe == [pc |-> "idle"]

\* a document comes to be stored while no ensureUniqueSlug is running
StoreProbeDoc(id, slug) ==
    /\ probe.pc # "loop"
    /\ Cardinality(content) < MaxProbeDocs
    /\ \E r \in {BaseInsert(content, id, [title |-> Hi, slug |-> slug])} :
           /\ r.ok
           /\ content' = r.docs
    /\ probe' = NoProbe
    /\ UNCHANGED <<media, tally, title, slugOut, calls, settings, writes,
                   verdict, users, sessions, now, last>>

\* ensureUniqueSlug(baseSlug, excludeID) up to its first await
BeginEnsureUniqueSlug(baseSlug, excludeID) ==
    /\ probe.pc # "loop"
    /\ probe' = [pc |-> "loop", base |-> baseSlug, slug |-> baseSlug, counter |-> 1,
                 excludeID |-> excludeID, probes |-> 0]
    /\ UNCHANGED <<media, tally, title, slugOut, content, calls, settings, writes,
                   verdict, users, sessions, now, last>>

\* await this.findOne(query) and what follows it up to the next await or
\* the return
ProbeOnce ==
    /\ probe.pc = "loop"
    /\ probe.probes <= Cardinality(content) + 1
    /\ \E p \in {ProbeSlug(content, probe.base, probe.slug, probe.counter,
                           probe.excludeID)} :
           probe' = [probe EXCEPT !.pc = IF p.done THEN "done" ELSE "loop",
                                  !.slug = p.slug,
                                  !.counter = p.counter,
                                  !.probes = @ + 1]
    /\ UNCHANGED <<media, tally, title, slugOut, content, calls, settings, writes,
                   verdict, users, sessions, now, last>>

InitProbe ==
    /\ title = <<>>
    /\ slugOut = NotRun
    /\ content = {}
    /\ calls = <<>>
    /\ settings = {}
    /\ writes = 0
    /\ probe = NoProbe
    /\ verdict = "notrun"
    /\ users = {}
    /\ sessions = {}
    /\ media = {}
    /\ tally = <<>>
    /\ now = 1
    /\ last = [op |-> "none"]

NextProbe ==
    \/ \E id \in ProbeIDs, slug \in ProbeDocSlugs : StoreProbeDoc(id, slug)
    \/ \E baseSlug \in ProbeBases, excludeID \in ProbeIDs \cup {NullID} :
          BeginEnsureUniqueSlug(baseSlug, excludeID)
    \/ ProbeOnce

SpecProbe == InitProbe /\ [][NextProbe]_vars

\* C28: with n documents stored and no other call running, ensureUniqueSlug
\* is still looping only while it has made at most n probes, and has
\* returned after at most n + 1; its probes are base, base-1, base-2, ... in
\* that order, and the slug it returns matches no document it was to consider.
EnsureUniqueSlugProbesBounded ==
    /\ probe.pc = "loop" =>
          /\ probe.probes <= Cardinality(content)
          /\ probe.counter = probe.probes + 1
          /\ probe.slug = IF probe.probes = 0 THEN probe.base
                          ELSE Suffixed(probe.base, probe.probes)
    /\ probe.pc = "done" =>
          /\ probe.probes <= Cardinality(content) + 1
          /\ SlugMatches(content, probe.slug, probe.excludeID) = {}

\* every document holds one of the slugs probed, and the loop returned
\* with its last probe, one more than there are documents
AllProbesWitness ==
    /\ probe.pc = "done"
    /\ Cardinality(content) = MaxProbeDocs
    /\ probe.probes = Cardinality(content) + 1

(***************************************************************************)
(* Documents that are given new titles: insert derives the slug from the   *)
(* first title, update leaves it alone.                                    *)
(***************************************************************************)
RetitleInserts ==
    { [title |-> Hi],
      [title |-> AB] }

RetitleUpdates ==
    { [title |-> AB],
      [title |-> Hi],
      [title |-> Bangs],
      [title |-> AB, slug |-> HiSlug],
      [title |-> Hi, slug |-> <<>>] }

NextRetitle ==
    \/ \E id \in FrameIDs, data \in RetitleInserts : Insert(id, data)
    \/ \E id \in FrameIDs \cup {MissingID}, data \in RetitleUpdates : Update(id, data)

SpecRetitle == InitPublish /\ [][NextRetitle]_vars

\* one update call that names a title and no slug for an existing document,
\* from the collection before it (content) to the collection after it
\* (content')
RetitleStep ==
    /\ \A d \in content : d.slug # <<>>
    /\ ( /\ last'.op = "update"
         /\ Truthy(last'.data, "title")
         /\ ~Has(last'.data, "slug")
         /\ \E d \in content : d.ID = last'.ID )
       => /\ last'.ok
          /\ ~Has(last'.set, "slug")
          /\ StoredSlug(content', last'.ID) = StoredSlug(content, last'.ID)
          /\ \E d \in content' : d.ID = last'.ID /\ d.title = last'.data.title

\* C29: every stored document has a non-empty slug, and an update of an
\* existing document whose data names a title and no slug succeeds, stores
\* the title and leaves the document's slug as it was.
SlugStableOnRetitle == [][RetitleStep]_vars

\* a document inserted as 'Hi' has just been retitled 'A b!' and still has
\* the slug 'hi', not the slug of its new title
RetitledWitness ==
    /\ last.op = "update" /\ last.ok
    /\ last.data = [title |-> AB]
    /\ \E d \in content : /\ d.ID = last.ID
                          /\ d.title = AB
                          /\ d.slug = HiSlug
                          /\ d.slug # generateSlug(d.title)

(***************************************************************************)
(* Sessions as the callers hold them: a lookup hands a caller a document,  *)
(* the instance methods change that copy and save it, and save() writes    *)
(* the paths the method assigned; meanwhile other callers and the static   *)
(* methods change the stored documents.  The _id of a session is stood for *)
(* by its session_id, which is unique and never reassigned.                *)
(***************************************************************************)
NoSession == [session_id |-> 0]

SessionUserIDs == {1, 2}

\* the callers that hold a session document: as many as there can be sessions
SessionHolders == 1..MaxSessions

\* the sessionData objects handed to createSession: sessions that last an hour
LifeSessionInputs ==
    { [session_id |-> sid, user_id |-> 1, ip_address |-> 0, user_agent |-> 0,
       expires_in |-> 1] : sid \in SessionIDs }

\* save() that writes the whole copy over the stored document
SaveWholeDocument(docs, doc, paths) ==
    LET saved == SessionPreSave(doc)
    IN  [doc |-> saved,
         docs |-> { IF d.session_id = saved.session_id THEN saved ELSE d : d \in docs }]

\* document.save() of a loaded session: the pre('save') hook, then the paths
\* assigned since the document was loaded are set on the stored document
SaveModifiedPaths(docs, doc, paths) ==
    LET saved == SessionPreSave(doc)
        modified == paths \cup (IF saved.expires_at # doc.expires_at
                                THEN {"expires_at"} ELSE {})
    IN  [doc |-> saved,
         docs |-> { IF d.session_id = saved.session_id
                    THEN [f \in DOMAIN d |-> IF f \in modified THEN saved[f] ELSE d[f]]
                    ELSE d
                    : d \in docs }]

\* the filter { is_active: true, expires_at: { $gt: new Date() } }
ActiveUnexpired(docs) == { d \in docs : d.is_active /\ d.expires_at > now }

\* SessionsSchema.statics.findBySessionId: null or the match
findBySessionId(docs, sessionId) ==
    LET matches == { d \in ActiveUnexpired(docs) : d.session_id = sessionId }
    IN  IF matches = {} THEN {NoSession} ELSE matches

\* .sort({ last_accessed: -1 }): the orders the sort can give
SortedByLastAccessed(S) ==
    { s \in [1..Cardinality(S) -> S] :
        /\ \A i, j \in 1..Cardinality(S) : i # j => s[i] # s[j]
        /\ \A i \in 1..(Cardinality(S) - 1) :
              s[i].last_accessed >= s[i + 1].last_accessed }

\* SessionsSchema.statics.findActiveByUser
findActiveByUser(docs, userId) ==
    SortedByLastAccessed({ d \in ActiveUnexpired(docs) : d.user_id = userId })

\* SessionsSchema.statics.getUserSessionCount
getUserSessionCount(docs, userId) ==
    Cardinality({ d \in ActiveUnexpired(docs) : d.user_id = userId })

\* SessionsSchema.statics.destroyAllUserSessions
destroyAllUserSessions(docs, userId) ==
    { IF d.user_id = userId /\ d.is_active THEN [d EXCEPT !.is_active = FALSE] ELSE d
      : d \in docs }

CreateLifeSession(sessionData) == CreateSession(sessionData)

\* a caller looks a session up and keeps the document it is given
FindBySessionId(c, sessionId) ==
    /\ \E result \in findBySessionId(sessions, sessionId) :
          /\ calls' = [calls EXCEPT ![c] =
                          IF result = NoSession THEN Idle
                          ELSE [pc |-> "held", doc |-> result]]
          /\ last' = [op |-> "findBySessionId", at |-> now, user_id |-> 0,
                      found |-> {result} \ {NoSession},
                      count |-> Cardinality({result} \ {NoSession})]
    /\ UNCHANGED <<media, tally, title, slugOut, content, settings, writes,
                   probe, verdict, users, sessions, now>>

FindActiveByUser(userId) ==
    /\ \E result \in findActiveByUser(sessions, userId) :
          last' = [op |-> "findActiveByUser", at |-> now, user_id |-> userId,
                   found |-> { result[i] : i \in DOMAIN result },
                   count |-> Len(result)]
    /\ UNCHANGED <<media, tally, title, slugOut, content, calls, settings, writes,
                   probe, verdict, users, sessions, now>>

GetUserSessionCount(userId) ==
    /\ last' = [op |-> "getUserSessionCount", at |-> now, user_id |-> userId,
                found |-> {}, count |-> getUserSessionCount(sessions, userId)]
    /\ UNCHANGED <<media, tally, title, slugOut, content, calls, settings, writes,
                   probe, verdict, users, sessions, now>>

\* an instance method on the document a caller holds: the assignments give
\* doc, save() writes paths
SaveHeld(c, op, doc, paths) ==
    /\ \E r \in {SaveModifiedPaths(sessions, doc, paths)} :
          /\ sessions' = r.docs
          /\ calls' = [calls EXCEPT ![c] = [pc |-> "held", doc |-> r.doc]]
    /\ last' = [op |-> op, at |-> now, session_id |-> doc.session_id]
    /\ UNCHANGED <<media, tally, title, slugOut, content, settings, writes,
                   probe, verdict, users, now>>

TouchHeld(c) ==
    /\ calls[c].pc = "held"
    /\ SaveHeld(c, "touch", [calls[c].doc EXCEPT !.last_accessed = now],
                {"last_accessed"})

DestroyHeld(c) ==
    /\ calls[c].pc = "held"
    /\ SaveHeld(c, "destroy", [calls[c].doc EXCEPT !.is_active = FALSE],
                {"is_active"})

ExtendHeld(c, additionalSeconds) ==
    /\ calls[c].pc = "held"
    /\ SaveHeld(c, "extend",
                [calls[c].doc EXCEPT !.expires_at = now + additionalSeconds,
                                     !.last_accessed = now],
                {"expires_at", "last_accessed"})

UpdateDataHeld(c, newData) ==
    /\ calls[c].pc = "held"
    /\ SaveHeld(c, "updateData",
                [calls[c].doc EXCEPT !.data = @ \cup newData, !.last_accessed = now],
                {"data", "last_accessed"})

DestroyAllUserSessions(userId) ==
    /\ sessions' = destroyAllUserSessions(sessions, userId)
    /\ last' = [op |-> "destroyAllUserSessions", at |-> now, user_id |-> userId]
    /\ UNCHANGED <<media, tally, title, slugOut, content, calls, settings, writes,
                   probe, verdict, users, now>>

InitLife ==
    /\ title = <<>>
    /\ slugOut = NotRun
    /\ content = {}
    /\ calls = [c \in SessionHolders |-> Idle]
    /\ settings = {}
    /\ writes = 0
    /\ probe = <<>>
    /\ verdict = "notrun"
    /\ users = {}
    /\ sessions = {}
    /\ media = {}
    /\ tally = <<>>
    /\ now = 1
    /\ last = [op |-> "none"]

NextLife ==
    \/ \E sessionData \in LifeSessionInputs : CreateLifeSession(sessionData)
    \/ \E c \in SessionHolders, sessionId \in SessionIDs : FindBySessionId(c, sessionId)
    \/ \E userId \in SessionUserIDs : FindActiveByUser(userId)
    \/ \E userId \in SessionUserIDs : GetUserSessionCount(userId)
    \/ \E c \in SessionHolders : TouchHeld(c)
    \/ \E c \in SessionHolders : DestroyHeld(c)
    \/ \E c \in SessionHolders : ExtendHeld(c, DefaultExtend)
    \/ \E c \in SessionHolders : UpdateDataHeld(c, {"cart"})
    \/ \E userId \in SessionUserIDs : DestroyAllUserSessions(userId)
    \/ Tick

SpecLife == InitLife /\ [][NextLife]_vars

\* one session operation or lookup, from the sessions before it to the
\* sessions after it
SessionLifeStep ==
    /\ \A d \in sessions, e \in sessions' :
          (e.session_id = d.session_id /\ ~d.is_active) => ~e.is_active
    /\ last'.op \in {"findBySessionId", "findActiveByUser"} =>
          /\ last'.count = Cardinality(last'.found)
          /\ \A d \in last'.found :
                d \in sessions' /\ d.is_active /\ d.expires_at > last'.at
    /\ last'.op \in {"findActiveByUser", "getUserSessionCount"} =>
          last'.count = Cardinality({ d \in sessions' :
                                        /\ d.user_id = last'.user_id
                                        /\ d.is_active
                                        /\ d.expires_at > last'.at })

\* C30: a stored session whose is_active is false keeps it false through
\* every touch, destroy, extend, updateData, destroyAllUserSessions and
\* lookup, whichever copy of it the method is called on; findBySessionId and
\* findActiveByUser return only stored sessions that are active and expire
\* after the moment of the query, and findActiveByUser and
\* getUserSessionCount report exactly as many as there are of the user.
DeactivationPermanent == [][SessionLifeStep]_vars

\* touch has just been called on a copy that was loaded while the session
\* was active, after the stored session was deactivated: the copy says
\* active, the stored session stays inactive
StaleTouchWitness ==
    /\ last.op = "touch"
    /\ \E c \in SessionHolders, d \in sessions :
          /\ calls[c].pc = "held"
          /\ calls[c].doc.session_id = d.session_id
          /\ d.session_id = last.session_id
          /\ calls[c].doc.is_active
          /\ ~d.is_active
          /\ d.last_accessed = calls[c].doc.last_accessed

\* a count has just left out the user's only session, which is active but
\* has expired
ExpiredNotCountedWitness ==
    /\ last.op = "getUserSessionCount" /\ last.count = 0 /\ last.at = now
    /\ \E d \in sessions : d.user_id = last.user_id /\ d.is_active /\ d.expires_at <= now

====
